---- MODULE Spec2Model ----
(***************************************************************************)
(* State-machine model of the request caching layer of stihl-agent-ui:     *)
(*   QueryCache    (src/api/agent/optimizations/cache.py, exact match,     *)
(*                  TTL checked on read, OrderedDict order for eviction)   *)
(*   SemanticCache (same file, embedding similarity, list order eviction)  *)
(* Strings are sequences of one-character strings so that strip() and      *)
(* lower() are computed.  time.time() is the variable now.                 *)
(***************************************************************************)
EXTENDS Integers, Sequences, FiniteSets, TLC

VARIABLES
    now,          \* value returned by time.time()
    q_max_size,   \* QueryCache.max_size
    q_cache,      \* QueryCache._cache: the OrderedDict, as the sequence of its items
    q_stats,      \* QueryCache._stats
    q_last,       \* the QueryCache call completed last and what it returned
    q_calls,      \* history: get calls by what they returned
    q_recency,    \* history: stored keys, least recently set-or-hit first
    s_max_size,   \* SemanticCache.max_size
    s_entries,    \* SemanticCache._entries
    s_stats,      \* SemanticCache._stats
    s_last,       \* the SemanticCache call completed last and what it returned
    s_inserted,   \* history: number of SemanticCache.set calls so far
    s_running,    \* SemanticCache calls in progress on threads that share the cache
    r_skills,     \* SkillRouter._skills: the names registered, in the order of the dict
    r_last,       \* the SkillRouter call completed last and what it returned
    r_changes,    \* history: number of register and unregister calls so far
    h_config,     \* ConversationHistoryManager.config
    h_history,    \* the agent's conversation_history
    h_last,       \* the last call on the transcript and what it returned
    h_appended,   \* history: number of messages appended to the transcript so far
    t_last,       \* the truncate_tool_result call completed last and what it returned
    a_config,     \* STIHLAnalyticsAgent: use_skill_routing, use_caching, use_semantic_cache
    a_current_skill, \* STIHLAnalyticsAgent.current_skill
    a_stats,      \* STIHLAnalyticsAgent._stats
    a_last        \* the call of chat completed last and what it returned

vars == <<now, q_max_size, q_cache, q_stats, q_last, q_calls, q_recency,
          s_max_size, s_entries, s_stats, s_last, s_inserted, s_running,
          r_skills, r_last, r_changes,
          h_config, h_history, h_last, h_appended,
          t_last,
          a_config, a_current_skill, a_stats, a_last>>

q_vars == <<q_max_size, q_cache, q_stats, q_last, q_calls, q_recency>>

s_vars == <<s_max_size, s_entries, s_stats, s_last, s_inserted, s_running>>

r_vars == <<r_skills, r_last, r_changes>>

h_vars == <<h_config, h_history, h_last, h_appended>>

t_vars == <<t_last>>

a_vars == <<a_config, a_current_skill, a_stats, a_last>>

\* the state of the components other than the two caches
ext_vars == <<r_vars, h_vars, t_vars, a_vars>>

\* the state a router call leaves alone
beside_router == <<now, q_vars, s_vars, h_vars, t_vars, a_vars>>

\* the state a call on the transcript leaves alone
beside_history == <<now, q_vars, s_vars, r_vars, t_vars, a_vars>>

\* the state a call of the truncator leaves alone
beside_truncator == <<now, q_vars, s_vars, r_vars, h_vars, a_vars>>

----------------------------------------------------------------------------
(* Bounds of the model *)

\* largest max_size a cache is constructed with
MaxCapacity == 2

\* ttl_seconds the caches are constructed with (scaled to clock ticks)
TtlTicks == 1

\* the clock stops advancing here
MaxTime == 2

\* QueryCache.get calls per behaviour
MaxGets == 2

\* Python's None as a skill name
None == "None"

\* Optional[CacheEntry]: NoEntry is None, <<e>> is the entry e
NoEntry == <<>>

\* query texts: "a", " A" (same key as "a"), "b", "c"
Queries == { <<"a">>, <<" ", "A">>, <<"b">>, <<"c">> }

\* the answers the exact cache is given: the query, the response and the skill
\* that produced it; "a" and " A" share a key and carry different responses
Requests ==
    { [query |-> <<"a">>, response |-> "r1", skill_name |-> None],
      [query |-> <<" ", "A">>, response |-> "r2", skill_name |-> "product_expert"],
      [query |-> <<"b">>, response |-> "r1", skill_name |-> None],
      [query |-> <<"c">>, response |-> "r2", skill_name |-> "product_expert"] }

----------------------------------------------------------------------------
(* Sequence helpers *)

\* Then(e), the value e being computed once however often Then uses it
Once(e, Then(_)) == CHOOSE value \in {Then(x) : x \in {e}} : TRUE

RECURSIVE SelectSeqBy(_, _)
\* the subsequence of s whose elements' keys are in the set keep
SelectSeqBy(s, keep) ==
    IF s = <<>> THEN <<>>
    ELSE IF Head(s).key \in keep
         THEN <<Head(s)>> \o SelectSeqBy(Tail(s), keep)
         ELSE SelectSeqBy(Tail(s), keep)

RECURSIVE WithoutElem(_, _)
\* the sequence s with every occurrence of x removed
WithoutElem(s, x) ==
    IF s = <<>> THEN <<>>
    ELSE IF Head(s) = x THEN WithoutElem(Tail(s), x)
         ELSE <<Head(s)>> \o WithoutElem(Tail(s), x)

----------------------------------------------------------------------------
(* QueryCache: key derivation *)

IsSpace(c) == c \in { " ", "\t", "\n" }

ToLower(c) ==
    CASE c = "A" -> "a"
      [] c = "B" -> "b"
      [] c = "C" -> "c"
      [] c = "D" -> "d"
      [] OTHER -> c

RECURSIVE LStrip(_)
LStrip(s) ==
    IF s # <<>> /\ IsSpace(Head(s)) THEN LStrip(Tail(s)) ELSE s

RECURSIVE RStrip(_)
RStrip(s) ==
    IF s # <<>> /\ IsSpace(s[Len(s)]) THEN RStrip(SubSeq(s, 1, Len(s) - 1)) ELSE s

\* query.strip().lower()
NormalizeQuery(query) ==
    LET t == RStrip(LStrip(query)) IN [i \in 1..Len(t) |-> ToLower(t[i])]

\* hashlib.md5(normalized).hexdigest(): the digest is represented by its
\* preimage (no two normalized queries of the model share a digest)
MakeKey(query) == NormalizeQuery(query)

----------------------------------------------------------------------------
(* QueryCache: the OrderedDict *)

Keys(cache) == { cache[i].key : i \in 1..Len(cache) }

\* self._cache[key]
Lookup(cache, key) ==
    cache[CHOOSE i \in 1..Len(cache) : cache[i].key = key]

\* del self._cache[key]
DelKey(cache, key) == SelectSeqBy(cache, Keys(cache) \ {key})

\* self._cache.move_to_end(key)
MoveToEnd(cache, key) == DelKey(cache, key) \o <<Lookup(cache, key)>>

\* self._cache[key] = entry: a stored key keeps its position, a new key is appended
PutItem(cache, key, entry) ==
    IF key \in Keys(cache)
    THEN [i \in 1..Len(cache) |-> IF cache[i].key = key THEN entry ELSE cache[i]]
    ELSE Append(cache, entry)

RECURSIVE EvictOldest_OffByOne(_, _)
\* EvictOldest with the loop test len(self._cache) > self.max_size
EvictOldest_OffByOne(cache, max_size) ==
    IF Len(cache) > max_size /\ cache # <<>>
    THEN EvictOldest_OffByOne(Tail(cache), max_size)
    ELSE cache

RECURSIVE EvictOldest(_, _)
\* while len(self._cache) >= self.max_size: del self._cache[next(iter(self._cache))]
EvictOldest(cache, max_size) ==
    IF Len(cache) >= max_size /\ cache # <<>>
    THEN EvictOldest(Tail(cache), max_size)
    ELSE cache

\* Expired with the subtraction the wrong way round
Expired_SignFlipped(entry, t, ttl_seconds) == entry.created_at - t > ttl_seconds

\* time.time() - entry.created_at > self.ttl_seconds
Expired(entry, t, ttl_seconds) == t - entry.created_at > ttl_seconds

\* RemoveExpired without the del
RemoveExpired_Keep(cache, key) == cache

\* del self._cache[key], for the entry found expired
RemoveExpired(cache, key) == DelKey(cache, key)

\* CacheEntry(query, response, skill_name, created_at) with hit_count = 0
NewEntry(key, query, response, skill_name, t) ==
    [key |-> key, query |-> query, response |-> response,
     skill_name |-> skill_name, created_at |-> t, hit_count |-> 0]

\* CountHit without the increment
CountHit_Skip(entry) == entry

\* entry.hit_count += 1
CountHit(entry) == [entry EXCEPT !.hit_count = @ + 1]

\* StatsMiss without the increment
StatsMiss_Skip(stats) == stats

\* self._stats["misses"] += 1
StatsMiss(stats) == [stats EXCEPT !.misses = @ + 1]

\* self._stats["hits"] += 1
StatsHit(stats) == [stats EXCEPT !.hits = @ + 1]

\* f"{hit_rate:.1%}": the rate as a percentage with one decimal, here the
\* number of tenths of a percent, rounded half to even as Python formats
FormatRate(hits, total) ==
    LET q == (1000 * hits) \div total
        r == (1000 * hits) % total
    IN  IF 2 * r > total THEN q + 1
        ELSE IF 2 * r < total THEN q
        ELSE IF q % 2 = 0 THEN q ELSE q + 1

\* QueryCache.get_stats()
GetStats(cache, stats, max_size) ==
    LET total == stats.hits + stats.misses
    IN  [size |-> Len(cache), max_size |-> max_size,
         hits |-> stats.hits, misses |-> stats.misses,
         hit_rate |-> IF total > 0 THEN FormatRate(stats.hits, total) ELSE 0]

\* the history of recency after a call: key was just set or hit, stored are the keys left
Touch(recency, key, stored) ==
    LET r == WithoutElem(recency, key) \o <<key>>
    IN  SelectSeq(r, LAMBDA k : k \in stored)

\* the history of recency after entries were removed
Forget(recency, stored) == SelectSeq(recency, LAMBDA k : k \in stored)

----------------------------------------------------------------------------
(* QueryCache: operations *)

\* a completed call: its arguments, what it returned and what it logged
Call(op, query, response, ret, log) ==
    [op |-> op, query |-> query, response |-> response, ret |-> ret, log |-> log]

\* logger.debug("Evicted oldest cache entry"), once per entry evicted
EvictionLog(cache, max_size) ==
    [i \in 1..(Len(cache) - Len(EvictOldest(cache, max_size))) |-> "evicted"]

\* QueryCache.get(query)
Get(query) ==
    LET key == MakeKey(query) IN
    /\ q_calls.entry + q_calls.none < MaxGets
    /\ IF key \notin Keys(q_cache)
       THEN /\ q_stats' = StatsMiss(q_stats)
            /\ q_cache' = q_cache
            /\ q_last' = Call("get", query, None, NoEntry, <<>>)
       ELSE IF Expired(Lookup(q_cache, key), now, TtlTicks)
       THEN /\ q_cache' = RemoveExpired(q_cache, key)
            /\ q_stats' = StatsMiss(q_stats)
            /\ q_last' = Call("get", query, None, NoEntry, <<"expired">>)
       ELSE LET entry == CountHit(Lookup(q_cache, key)) IN
            /\ q_cache' = PutItem(MoveToEnd(q_cache, key), key, entry)
            /\ q_stats' = StatsHit(q_stats)
            /\ q_last' = Call("get", query, None, <<entry>>, <<"hit">>)
    /\ q_calls' = IF q_last'.ret = NoEntry
                  THEN [q_calls EXCEPT !.none = @ + 1]
                  ELSE [q_calls EXCEPT !.entry = @ + 1]
    /\ q_recency' = IF q_last'.ret = NoEntry
                    THEN Forget(q_recency, Keys(q_cache'))
                    ELSE Touch(q_recency, key, Keys(q_cache'))
    /\ UNCHANGED <<now, q_max_size, s_vars, ext_vars>>

\* QueryCache.set(query, response, skill_name)
Set(query, response, skill_name) ==
    LET key == MakeKey(query) IN
    /\ q_cache' = PutItem(EvictOldest(q_cache, q_max_size), key,
                          NewEntry(key, query, response, skill_name, now))
    /\ q_last' = Call("set", query, response, NoEntry,
                       EvictionLog(q_cache, q_max_size) \o <<"cached">>)
    /\ q_recency' = Touch(q_recency, key, Keys(q_cache'))
    /\ UNCHANGED <<now, q_max_size, q_stats, q_calls, s_vars, ext_vars>>

\* QueryCache.invalidate(query)
Invalidate(query) ==
    LET key == MakeKey(query) IN
    /\ q_cache' = IF key \in Keys(q_cache) THEN DelKey(q_cache, key) ELSE q_cache
    /\ q_last' = Call("invalidate", query, None, NoEntry, <<>>)
    /\ q_recency' = Forget(q_recency, Keys(q_cache'))
    /\ UNCHANGED <<now, q_max_size, q_stats, q_calls, s_vars, ext_vars>>

\* QueryCache.clear()
Clear ==
    /\ q_cache' = <<>>
    /\ q_last' = Call("clear", <<>>, None, NoEntry, <<"cleared">>)
    /\ q_recency' = <<>>
    /\ UNCHANGED <<now, q_max_size, q_stats, q_calls, s_vars, ext_vars>>

\* the clock advances between calls
Tick ==
    /\ now < MaxTime
    /\ now' = now + 1
    /\ UNCHANGED <<q_vars, s_vars, ext_vars>>

----------------------------------------------------------------------------
(* SemanticCache: cosine similarity *)

\* A similarity value x = dot / (|a| * |b|) is kept exactly, as the reduced
\* fraction <<n, d>> of its signed square: n / d = x * |x|, d > 0.  The order
\* of such pairs is the order of the values they stand for.

RECURSIVE GCD(_, _)
GCD(m, n) == IF n = 0 THEN m ELSE GCD(n, m % n)

Abs(x) == IF x < 0 THEN -x ELSE x

RECURSIVE Dot(_, _)
\* sum(x * y for x, y in zip(a, b))
Dot(a, b) ==
    IF a = <<>> \/ b = <<>> THEN 0
    ELSE Head(a) * Head(b) + Dot(Tail(a), Tail(b))

SimZero == <<0, 1>>

\* SemanticCache._cosine_similarity(a, b)
CosineSimilarity(a, b) ==
    IF Len(a) # Len(b) THEN SimZero
    ELSE LET dot_product == Dot(a, b)
             sq_a == Dot(a, a)
             sq_b == Dot(b, b)
         IN  IF sq_a = 0 \/ sq_b = 0 THEN SimZero
             ELSE LET n == dot_product * Abs(dot_product)
                      d == sq_a * sq_b
                      g == GCD(Abs(n), d)
                  IN  <<n \div g, d \div g>>

\* x > y on similarity values
SimGT(x, y) == x[1] * y[2] > y[1] * x[2]

\* similarity_threshold = 0.92 = 23/25, as numerator and denominator
SimilarityThreshold == <<23, 25>>

\* best_similarity >= self.similarity_threshold (the threshold is positive)
AtLeastThreshold(x, threshold) ==
    x[1] * threshold[2] * threshold[2] >= threshold[1] * threshold[1] * x[2]

\* the similarity_scores list keeps its last 100 values
ScoreWindow == 100

\* scores[-100:]
LastN(s, n) == IF Len(s) <= n THEN s ELSE SubSeq(s, Len(s) - n + 1, Len(s))

----------------------------------------------------------------------------
(* SemanticCache: operations *)

\* SemanticCache.set calls per behaviour
MaxInserts == 3

\* SemanticCache.get_similar calls per behaviour
MaxLookups == 2

\* the requests the semantic cache sees: a query, the embedding the embedding
\* service returns for it (none for "e"), and the answer produced for it
SemRequests ==
    { [query |-> <<"a">>, embedding |-> <<1, 0>>,
       response |-> "r1", skill_name |-> None],
      [query |-> <<"b">>, embedding |-> <<3, 1>>,
       response |-> "r2", skill_name |-> "product_expert"],
      [query |-> <<"c">>, embedding |-> <<1, 1>>,
       response |-> "r1", skill_name |-> None],
      [query |-> <<"d">>, embedding |-> <<-1, 0>>,
       response |-> "r2", skill_name |-> None],
      [query |-> <<"e">>, embedding |-> <<>>,
       response |-> "r1", skill_name |-> None] }

\* the requests whose answers get cached
SemCached == { r \in SemRequests : r.query \in { <<"a">>, <<"b">>, <<"c">> } }

\* a completed call: what it returned and what it logged
SemCall(op, ret, log) == [op |-> op, ret |-> ret, log |-> log]

RECURSIVE ValidEntries_KeepAll(_, _, _)
\* ValidEntries with the check of the age left out
ValidEntries_KeepAll(entries, t, ttl_seconds) ==
    IF entries = <<>> THEN <<>>
    ELSE <<Head(entries)>> \o ValidEntries_KeepAll(Tail(entries), t, ttl_seconds)

RECURSIVE ValidEntries(_, _, _)
\* the entries the scan keeps: those not older than ttl_seconds, in list order
ValidEntries(entries, t, ttl_seconds) ==
    IF entries = <<>> THEN <<>>
    ELSE IF t - Head(entries).created_at > ttl_seconds
         THEN ValidEntries(Tail(entries), t, ttl_seconds)
         ELSE <<Head(entries)>> \o ValidEntries(Tail(entries), t, ttl_seconds)

\* Better taking the first entry of positive similarity and no later one
Better_FirstFound(similarity, best) ==
    best.match = NoEntry /\ SimGT(similarity, SimZero)

\* if similarity > best_similarity: best_similarity, best_match = similarity, entry
Better(similarity, best) == SimGT(similarity, best.similarity)

RECURSIVE Scan(_, _, _)
\* the loop over the valid entries, from best = (0.0, None)
Scan(entries, query_embedding, best) ==
    IF entries = <<>> THEN best
    ELSE LET similarity == CosineSimilarity(query_embedding, Head(entries).embedding)
         IN  Scan(Tail(entries), query_embedding,
                  IF Better(similarity, best)
                  THEN [similarity |-> similarity, match |-> <<Head(entries)>>]
                  ELSE best)

\* HitEntry with the hit counter of the stored entry as it is
HitEntry_SameCount(match) ==
    [query |-> match.query, response |-> match.response,
     skill_name |-> match.skill_name, created_at |-> match.created_at,
     hit_count |-> match.hit_count]

\* the CacheEntry built on a hit
HitEntry(match) ==
    [query |-> match.query, response |-> match.response,
     skill_name |-> match.skill_name, created_at |-> match.created_at,
     hit_count |-> match.hit_count + 1]

RECURSIVE PopOldest_OffByOne(_, _)
\* PopOldest with the loop test len(self._entries) > self.max_size
PopOldest_OffByOne(entries, max_size) ==
    IF Len(entries) > max_size /\ entries # <<>>
    THEN PopOldest_OffByOne(Tail(entries), max_size)
    ELSE entries

RECURSIVE PopOldest_Newest(_, _)
\* PopOldest with self._entries.pop() in place of self._entries.pop(0)
PopOldest_Newest(entries, max_size) ==
    IF Len(entries) >= max_size /\ entries # <<>>
    THEN PopOldest_Newest(SubSeq(entries, 1, Len(entries) - 1), max_size)
    ELSE entries

RECURSIVE PopOldest(_, _)
\* while len(self._entries) >= self.max_size: self._entries.pop(0)
PopOldest(entries, max_size) ==
    IF Len(entries) >= max_size /\ entries # <<>>
    THEN PopOldest(Tail(entries), max_size)
    ELSE entries

\* SemanticCache.get_similar(query, query_embedding)
GetSimilar(query, query_embedding) ==
    /\ s_stats.hits + s_stats.misses < MaxLookups
    /\ IF s_entries = <<>> \/ query_embedding = <<>>
       THEN /\ s_stats' = [s_stats EXCEPT !.misses = @ + 1]
            /\ s_entries' = s_entries
            /\ s_last' = SemCall("get_similar", NoEntry, <<>>)
       ELSE LET valid_entries == ValidEntries(s_entries, now, TtlTicks)
                best == Scan(valid_entries, query_embedding,
                             [similarity |-> SimZero, match |-> NoEntry])
                scores == IF SimGT(best.similarity, SimZero)
                          THEN LastN(Append(s_stats.similarity_scores, best.similarity),
                                     ScoreWindow)
                          ELSE s_stats.similarity_scores
            IN  /\ s_entries' = valid_entries
                /\ IF best.match # NoEntry
                      /\ AtLeastThreshold(best.similarity, SimilarityThreshold)
                   THEN /\ s_stats' = [s_stats EXCEPT !.hits = @ + 1,
                                                      !.similarity_scores = scores]
                        /\ s_last' = SemCall("get_similar", <<HitEntry(best.match[1])>>,
                                              <<"hit">>)
                   ELSE /\ s_stats' = [s_stats EXCEPT !.misses = @ + 1,
                                                      !.similarity_scores = scores]
                        /\ s_last' = SemCall("get_similar", NoEntry,
                                              IF SimGT(best.similarity, SimZero)
                                              THEN <<"miss">> ELSE <<>>)
    /\ UNCHANGED <<now, q_vars, s_max_size, s_inserted, s_running, ext_vars>>

\* SemanticCache.set(query, response, embedding, skill_name)
SemSet(query, response, embedding, skill_name) ==
    /\ s_inserted < MaxInserts
    /\ s_entries' = Append(PopOldest(s_entries, s_max_size),
                           [query |-> query, response |-> response,
                            embedding |-> embedding, skill_name |-> skill_name,
                            created_at |-> now, hit_count |-> 0,
                            seq |-> s_inserted + 1])
    /\ s_inserted' = s_inserted + 1
    /\ s_last' = SemCall("set", NoEntry, <<"cached">>)
    /\ UNCHANGED <<now, q_vars, s_max_size, s_stats, s_running, ext_vars>>

\* SemanticCache.clear()
SemClear ==
    /\ s_entries' = <<>>
    /\ s_last' = SemCall("clear", NoEntry, <<"cleared">>)
    /\ UNCHANGED <<now, q_vars, s_max_size, s_stats, s_inserted, s_running, ext_vars>>

----------------------------------------------------------------------------
(* SemanticCache: calls interleaved on threads that share one cache *)

\* A thread may be switched between any two statements of get_similar and of
\* set; list.append and list.pop are single steps.  One get_similar and one
\* set are in progress at most.  The loop of get_similar reads self._entries
\* by position, as a list iterator does, so it sees what set does to the list
\* while it runs.

\* best_similarity = 0.0, best_match = None
NoBest == [similarity |-> SimZero, match |-> NoEntry]

\* a thread that runs no call of get_similar
IdleGet ==
    [pc |-> "idle", query_embedding |-> <<>>, current_time |-> 0, i |-> 0,
     valid_entries |-> <<>>, best |-> NoBest]

\* a thread that runs no call of set
IdleSet == [pc |-> "idle", request |-> <<>>]

\* no call in progress; serialized: the caller lets one call run at a time;
\* committed: history, the entries set has appended and not popped since
NoThreads(serialized) ==
    [serialized |-> serialized, get |-> IdleGet, set |-> IdleSet, committed |-> {}]

\* Stale with an entry of exactly ttl_seconds taken for expired
Stale_AtTtl(entry, current_time, ttl_seconds) ==
    current_time - entry.created_at >= ttl_seconds

\* current_time - entry["created_at"] > self.ttl_seconds
Stale(entry, current_time, ttl_seconds) ==
    current_time - entry.created_at > ttl_seconds

\* get_similar up to the head of its loop: the empty cache or embedding is a
\* miss, otherwise current_time is read and the loop starts
GetBegin(query, query_embedding) ==
    /\ s_running.get.pc = "idle"
    /\ s_running.serialized => s_running.set.pc = "idle"
    /\ s_stats.hits + s_stats.misses < MaxLookups
    /\ IF s_entries = <<>> \/ query_embedding = <<>>
       THEN /\ s_stats' = [s_stats EXCEPT !.misses = @ + 1]
            /\ s_last' = SemCall("get_similar", NoEntry, <<>>)
            /\ s_running' = s_running
       ELSE /\ s_running' = [s_running EXCEPT
                                !.get = [pc |-> "scan", query_embedding |-> query_embedding,
                                         current_time |-> now, i |-> 0,
                                         valid_entries |-> <<>>, best |-> NoBest]]
            /\ UNCHANGED <<s_stats, s_last>>
    /\ UNCHANGED <<now, q_vars, s_max_size, s_entries, s_inserted, ext_vars>>

\* one turn of the loop of get_similar, on the entry at the iterator's position
GetScanEntry ==
    /\ s_running.get.pc = "scan"
    /\ s_running.get.i < Len(s_entries)
    /\ LET get == s_running.get
           entry == s_entries[get.i + 1]
           similarity == CosineSimilarity(get.query_embedding, entry.embedding)
       IN  s_running' =
              [s_running EXCEPT
                 !.get = IF Stale(entry, get.current_time, TtlTicks)
                         THEN [get EXCEPT !.i = @ + 1]
                         ELSE [get EXCEPT
                                 !.i = @ + 1,
                                 !.valid_entries = Append(@, entry),
                                 !.best = IF Better(similarity, get.best)
                                          THEN [similarity |-> similarity,
                                                match |-> <<entry>>]
                                          ELSE get.best]]
    /\ UNCHANGED <<now, q_vars, s_max_size, s_entries, s_stats, s_last, s_inserted,
                   ext_vars>>

\* the iterator finds no entry at its position: the loop of get_similar ends
GetScanEnd ==
    /\ s_running.get.pc = "scan"
    /\ s_running.get.i >= Len(s_entries)
    /\ s_running' = [s_running EXCEPT !.get.pc = "assign"]
    /\ UNCHANGED <<now, q_vars, s_max_size, s_entries, s_stats, s_last, s_inserted,
                   ext_vars>>

\* get_similar from self._entries = valid_entries to its return
GetAssign ==
    /\ s_running.get.pc = "assign"
    /\ LET best == s_running.get.best
           scores == IF SimGT(best.similarity, SimZero)
                     THEN LastN(Append(s_stats.similarity_scores, best.similarity),
                                ScoreWindow)
                     ELSE s_stats.similarity_scores
       IN  /\ s_entries' = s_running.get.valid_entries
           /\ IF best.match # NoEntry
                 /\ AtLeastThreshold(best.similarity, SimilarityThreshold)
              THEN /\ s_stats' = [s_stats EXCEPT !.hits = @ + 1,
                                                 !.similarity_scores = scores]
                   /\ s_last' = SemCall("get_similar", <<HitEntry(best.match[1])>>,
                                         <<"hit">>)
              ELSE /\ s_stats' = [s_stats EXCEPT !.misses = @ + 1,
                                                 !.similarity_scores = scores]
                   /\ s_last' = SemCall("get_similar", NoEntry,
                                         IF SimGT(best.similarity, SimZero)
                                         THEN <<"miss">> ELSE <<>>)
    /\ s_running' = [s_running EXCEPT !.get = IdleGet]
    /\ UNCHANGED <<now, q_vars, s_max_size, s_inserted, ext_vars>>

\* set is called
SetBegin(request) ==
    /\ s_running.set.pc = "idle"
    /\ s_running.serialized => s_running.get.pc = "idle"
    /\ s_inserted < MaxInserts
    /\ s_running' = [s_running EXCEPT !.set = [pc |-> "evict", request |-> <<request>>]]
    /\ UNCHANGED <<now, q_vars, s_max_size, s_entries, s_stats, s_last, s_inserted,
                   ext_vars>>

\* one turn of while len(self._entries) >= self.max_size: self._entries.pop(0)
SetPop ==
    /\ s_running.set.pc = "evict"
    /\ Len(s_entries) >= s_max_size
    /\ s_entries' = Tail(s_entries)
    /\ s_running' = [s_running EXCEPT
                        !.committed = { c \in @ : c.seq # Head(s_entries).seq }]
    /\ UNCHANGED <<now, q_vars, s_max_size, s_stats, s_last, s_inserted, ext_vars>>

\* the loop of set is left: self._entries.append({...}), and set returns
SetAppend ==
    /\ s_running.set.pc = "evict"
    /\ Len(s_entries) < s_max_size
    /\ LET request == s_running.set.request[1]
       IN  s_entries' = Append(s_entries,
                               [query |-> request.query, response |-> request.response,
                                embedding |-> request.embedding,
                                skill_name |-> request.skill_name,
                                created_at |-> now, hit_count |-> 0,
                                seq |-> s_inserted + 1])
    /\ s_inserted' = s_inserted + 1
    /\ s_last' = SemCall("set", NoEntry, <<"cached">>)
    /\ s_running' = [s_running EXCEPT
                        !.set = IdleSet,
                        !.committed = @ \cup {[seq |-> s_inserted + 1, created_at |-> now]}]
    /\ UNCHANGED <<now, q_vars, s_max_size, s_stats, ext_vars>>

----------------------------------------------------------------------------
(* Regular expressions: re.search on a string kept as a sequence of characters *)

LowerLetters ==
    <<"a", "b", "c", "d", "e", "f", "g", "h", "i", "j", "k", "l", "m",
      "n", "o", "p", "q", "r", "s", "t", "u", "v", "w", "x", "y", "z">>

UpperLetters ==
    <<"A", "B", "C", "D", "E", "F", "G", "H", "I", "J", "K", "L", "M",
      "N", "O", "P", "Q", "R", "S", "T", "U", "V", "W", "X", "Y", "Z">>

DigitChars == {"0", "1", "2", "3", "4", "5", "6", "7", "8", "9"}

\* the characters \w matches
WordChars ==
    { LowerLetters[i] : i \in 1..26 } \cup { UpperLetters[i] : i \in 1..26 }
       \cup DigitChars \cup {"_"}

IsWordChar(c) == c \in WordChars

\* str.lower() on one character
LowerChar(c) ==
    IF \E i \in 1..26 : UpperLetters[i] = c
    THEN LowerLetters[CHOOSE i \in 1..26 : UpperLetters[i] = c]
    ELSE c

\* str.lower()
StrLower(s) == [i \in 1..Len(s) |-> LowerChar(s[i])]

\* the nodes of a parsed pattern, as re's parser names them
Lit(s) == [t |-> "literal", s |-> s]

AnyChar == [t |-> "any"]

In(chars, categories) == [t |-> "in", chars |-> chars, categories |-> categories]

Branch(alts) == [t |-> "branch", alts |-> alts]

Group(p) == [t |-> "subpattern", p |-> p]

MaxRepeat(lo, hi, p) == [t |-> "max_repeat", lo |-> lo, hi |-> hi, p |-> p]

\* the upper limit of * and +
Unbounded == -1

AtBeginning == [t |-> "at_beginning"]

AtEnd == [t |-> "at_end"]

AtBoundary == [t |-> "at_boundary"]

AssertNot(p) == [t |-> "assert_not", p |-> p]

\* a rule: the text as written in the source, and its parse
Pattern(src, parsed) == [src |-> src, re |-> parsed]

\* the character after position p of s is in the class
InClass(c, n) ==
    \/ c \in n.chars
    \/ "digit" \in n.categories /\ c \in DigitChars
    \/ "word" \in n.categories /\ IsWordChar(c)
    \/ "space" \in n.categories /\ IsSpace(c)

\* \b at position p: a word character on exactly one side
IsBoundary(s, p) ==
    (p > 0 /\ IsWordChar(s[p])) # (p < Len(s) /\ IsWordChar(s[p + 1]))

RECURSIVE MatchSeq(_, _, _)
RECURSIVE MatchNode(_, _, _)
RECURSIVE MatchRepeat(_, _, _, _, _)

\* the positions where a match of the nodes of seq, begun at a position of
\* starts, can end (a position is the number of characters before it)
MatchSeq(seq, s, starts) ==
    IF seq = <<>> \/ starts = {} THEN starts
    ELSE MatchSeq(Tail(seq), s, UNION { MatchNode(Head(seq), s, p) : p \in starts })

\* the positions reached by k or more (at least n.lo, at most n.hi) repetitions,
\* cur being those reached by exactly k
MatchRepeat(n, s, cur, k, acc) ==
    LET reached == IF k >= n.lo THEN acc \cup cur ELSE acc
    IN  IF cur = {} \/ k = n.hi THEN reached
        ELSE MatchRepeat(n, s, MatchSeq(n.p, s, cur) \ reached, k + 1, reached)

\* the positions where a match of node n begun at position p can end
MatchNode(n, s, p) ==
    CASE n.t = "literal" ->
            IF p + Len(n.s) <= Len(s) /\ SubSeq(s, p + 1, p + Len(n.s)) = n.s
            THEN {p + Len(n.s)} ELSE {}
      [] n.t = "any" ->
            IF p < Len(s) /\ s[p + 1] # "\n" THEN {p + 1} ELSE {}
      [] n.t = "in" ->
            IF p < Len(s) /\ InClass(s[p + 1], n) THEN {p + 1} ELSE {}
      [] n.t = "branch" ->
            UNION { MatchSeq(n.alts[i], s, {p}) : i \in 1..Len(n.alts) }
      [] n.t = "subpattern" -> MatchSeq(n.p, s, {p})
      [] n.t = "max_repeat" -> MatchRepeat(n, s, {p}, 0, {})
      [] n.t = "at_beginning" -> IF p = 0 THEN {p} ELSE {}
      [] n.t = "at_end" ->
            IF p = Len(s) \/ (p = Len(s) - 1 /\ s[Len(s)] = "\n") THEN {p} ELSE {}
      [] n.t = "at_boundary" -> IF IsBoundary(s, p) THEN {p} ELSE {}
      [] n.t = "assert_not" -> IF MatchSeq(n.p, s, {p}) = {} THEN {p} ELSE {}

\* re.search(pattern, s): the pattern matches somewhere in s
Search(pattern, s) == MatchSeq(pattern.re, s, 0..Len(s)) # {}

\* re.search(pattern, s, re.IGNORECASE): the rules are written in lower case,
\* so that folding the subject is folding both
SearchIgnoreCase(pattern, s) == Search(pattern, StrLower(s))

RECURSIVE WordsScan(_, _)
\* the maximal runs of word characters of s, cur being the run in progress
WordsScan(s, cur) ==
    LET done == IF cur = <<>> THEN {} ELSE {cur}
    IN  IF s = <<>> THEN done
        ELSE IF IsWordChar(Head(s)) THEN WordsScan(Tail(s), Append(cur, Head(s)))
        ELSE done \cup WordsScan(Tail(s), <<>>)

\* set(re.findall(r'\w+', s))
Words(s) == WordsScan(s, <<>>)

----------------------------------------------------------------------------
(* Skills: confidence of a match *)

\* Confidences are kept in thousandths.  The sums the base rule forms in
\* double arithmetic, 0.7 + 0.1 and on, fall just short of 0.8, 0.9 and 1.0
\* (0.7999999999999999, ...): they are kept one thousandth short.

\* confidence = 0.7
BaseConfidence == 700

\* len(pattern) > 30
LongPattern == 30

\* min(confidence, 1.0)
MaxConfidence == 1000

\* confidence += 0.1
AddTenth(confidence) ==
    IF confidence = BaseConfidence THEN confidence + 99 ELSE confidence + 100

Min(a, b) == IF a <= b THEN a ELSE b

\* BaseCalculateConfidence without the boost for a long pattern
BaseCalculateConfidence_NoLengthBoost(pattern, query) ==
    LET c1 == BaseConfidence
        pattern_keywords == Words(StrLower(pattern))
        query_keywords == Words(StrLower(query))
        keyword_overlap == Cardinality(pattern_keywords \cap query_keywords)
        c2 == IF keyword_overlap >= 2 THEN AddTenth(c1) ELSE c1
        c3 == IF keyword_overlap >= 3 THEN AddTenth(c2) ELSE c2
    IN  Min(c3, MaxConfidence)

\* BaseSkill._calculate_confidence(pattern, query)
BaseCalculateConfidence(pattern, query) ==
    LET c0 == BaseConfidence
        c1 == IF Len(pattern) > LongPattern THEN AddTenth(c0) ELSE c0
        pattern_keywords == Words(StrLower(pattern))
        query_keywords == Words(StrLower(query))
        keyword_overlap == Cardinality(pattern_keywords \cap query_keywords)
        c2 == IF keyword_overlap >= 2 THEN AddTenth(c1) ELSE c1
        c3 == IF keyword_overlap >= 3 THEN AddTenth(c2) ELSE c2
    IN  Min(c3, MaxConfidence)

\* return 0.95
KeywordConfidence == 950

\* return 0.90
RequestConfidence == 900

\* return 0.75
DefaultReplenishmentConfidence == 750

----------------------------------------------------------------------------
(* Skills: the default skills *)

\* ProductSkill.triggers: each rule as written and as re parses it
ProductSkillTriggers ==
    << \* \bchainsaw
       Pattern(<<"\\", "b", "c", "h", "a", "i", "n", "s", "a", "w">>,
        <<AtBoundary, Lit(<<"c", "h", "a", "i", "n", "s", "a", "w">>)>>),
       \* \btrimmer
       Pattern(<<"\\", "b", "t", "r", "i", "m", "m", "e", "r">>,
        <<AtBoundary, Lit(<<"t", "r", "i", "m", "m", "e", "r">>)>>),
       \* \bblower
       Pattern(<<"\\", "b", "b", "l", "o", "w", "e", "r">>,
        <<AtBoundary, Lit(<<"b", "l", "o", "w", "e", "r">>)>>),
       \* \bhedge
       Pattern(<<"\\", "b", "h", "e", "d", "g", "e">>,
        <<AtBoundary, Lit(<<"h", "e", "d", "g", "e">>)>>),
       \* \bpressure.washer
       Pattern(<<"\\", "b", "p", "r", "e", "s", "s", "u", "r", "e", ".", "w", "a", "s", "h", "e", "r">>,
        <<AtBoundary, Lit(<<"p", "r", "e", "s", "s", "u", "r", "e">>), AnyChar, Lit(<<"w", "a", "s", "h", "e", "r">>)>>),
       \* \bsprayer
       Pattern(<<"\\", "b", "s", "p", "r", "a", "y", "e", "r">>,
        <<AtBoundary, Lit(<<"s", "p", "r", "a", "y", "e", "r">>)>>),
       \* \b(ms|fs|bg|hs|rb|re|sr)\s*[-]?\s*\d{2,4}\b
       Pattern(<<"\\", "b", "(", "m", "s", "|", "f", "s", "|", "b", "g", "|", "h", "s", "|", "r", "b", "|", "r", "e", "|", "s", "r", ")", "\\", "s", "*", "[", "-", "]", "?", "\\", "s", "*", "\\", "d", "{", "2", ",", "4", "}", "\\", "b">>,
        <<AtBoundary, Group(<<Branch(<<<<Lit(<<"m", "s">>)>>, <<Lit(<<"f", "s">>)>>, <<Lit(<<"b", "g">>)>>, <<Lit(<<"h", "s">>)>>, <<Lit(<<"r", "b">>)>>, <<Lit(<<"r", "e">>)>>, <<Lit(<<"s", "r">>)>>>>)>>), MaxRepeat(0, Unbounded, <<In({}, {"space"})>>), MaxRepeat(0, 1, <<Lit(<<"-">>)>>), MaxRepeat(0, Unbounded, <<In({}, {"space"})>>), MaxRepeat(2, 4, <<In({}, {"digit"})>>), AtBoundary>>),
       \* (best|recommend|suggest|ideal).*(for|to)
       Pattern(<<"(", "b", "e", "s", "t", "|", "r", "e", "c", "o", "m", "m", "e", "n", "d", "|", "s", "u", "g", "g", "e", "s", "t", "|", "i", "d", "e", "a", "l", ")", ".", "*", "(", "f", "o", "r", "|", "t", "o", ")">>,
        <<Group(<<Branch(<<<<Lit(<<"b", "e", "s", "t">>)>>, <<Lit(<<"r", "e", "c", "o", "m", "m", "e", "n", "d">>)>>, <<Lit(<<"s", "u", "g", "g", "e", "s", "t">>)>>, <<Lit(<<"i", "d", "e", "a", "l">>)>>>>)>>), MaxRepeat(0, Unbounded, <<AnyChar>>), Group(<<Branch(<<<<Lit(<<"f", "o", "r">>)>>, <<Lit(<<"t", "o">>)>>>>)>>)>>),
       \* (which|what).*(should|would|could).*(buy|use|get)
       Pattern(<<"(", "w", "h", "i", "c", "h", "|", "w", "h", "a", "t", ")", ".", "*", "(", "s", "h", "o", "u", "l", "d", "|", "w", "o", "u", "l", "d", "|", "c", "o", "u", "l", "d", ")", ".", "*", "(", "b", "u", "y", "|", "u", "s", "e", "|", "g", "e", "t", ")">>,
        <<Group(<<Lit(<<"w", "h">>), Branch(<<<<Lit(<<"i", "c", "h">>)>>, <<Lit(<<"a", "t">>)>>>>)>>), MaxRepeat(0, Unbounded, <<AnyChar>>), Group(<<Branch(<<<<Lit(<<"s", "h", "o", "u", "l", "d">>)>>, <<Lit(<<"w", "o", "u", "l", "d">>)>>, <<Lit(<<"c", "o", "u", "l", "d">>)>>>>)>>), MaxRepeat(0, Unbounded, <<AnyChar>>), Group(<<Branch(<<<<Lit(<<"b", "u", "y">>)>>, <<Lit(<<"u", "s", "e">>)>>, <<Lit(<<"g", "e", "t">>)>>>>)>>)>>),
       \* (looking for|need).*(equipment|tool)
       Pattern(<<"(", "l", "o", "o", "k", "i", "n", "g", " ", "f", "o", "r", "|", "n", "e", "e", "d", ")", ".", "*", "(", "e", "q", "u", "i", "p", "m", "e", "n", "t", "|", "t", "o", "o", "l", ")">>,
        <<Group(<<Branch(<<<<Lit(<<"l", "o", "o", "k", "i", "n", "g", " ", "f", "o", "r">>)>>, <<Lit(<<"n", "e", "e", "d">>)>>>>)>>), MaxRepeat(0, Unbounded, <<AnyChar>>), Group(<<Branch(<<<<Lit(<<"e", "q", "u", "i", "p", "m", "e", "n", "t">>)>>, <<Lit(<<"t", "o", "o", "l">>)>>>>)>>)>>),
       \* recommendation
       Pattern(<<"r", "e", "c", "o", "m", "m", "e", "n", "d", "a", "t", "i", "o", "n">>,
        <<Lit(<<"r", "e", "c", "o", "m", "m", "e", "n", "d", "a", "t", "i", "o", "n">>)>>),
       \* (compare|vs|versus|difference|better).*(ms|fs|bg|hs)
       Pattern(<<"(", "c", "o", "m", "p", "a", "r", "e", "|", "v", "s", "|", "v", "e", "r", "s", "u", "s", "|", "d", "i", "f", "f", "e", "r", "e", "n", "c", "e", "|", "b", "e", "t", "t", "e", "r", ")", ".", "*", "(", "m", "s", "|", "f", "s", "|", "b", "g", "|", "h", "s", ")">>,
        <<Group(<<Branch(<<<<Lit(<<"c", "o", "m", "p", "a", "r", "e">>)>>, <<Lit(<<"v", "s">>)>>, <<Lit(<<"v", "e", "r", "s", "u", "s">>)>>, <<Lit(<<"d", "i", "f", "f", "e", "r", "e", "n", "c", "e">>)>>, <<Lit(<<"b", "e", "t", "t", "e", "r">>)>>>>)>>), MaxRepeat(0, Unbounded, <<AnyChar>>), Group(<<Branch(<<<<Lit(<<"m", "s">>)>>, <<Lit(<<"f", "s">>)>>, <<Lit(<<"b", "g">>)>>, <<Lit(<<"h", "s">>)>>>>)>>)>>),
       \* (ms|fs|bg|hs)\s*\d+.*(vs|versus|or|compared)
       Pattern(<<"(", "m", "s", "|", "f", "s", "|", "b", "g", "|", "h", "s", ")", "\\", "s", "*", "\\", "d", "+", ".", "*", "(", "v", "s", "|", "v", "e", "r", "s", "u", "s", "|", "o", "r", "|", "c", "o", "m", "p", "a", "r", "e", "d", ")">>,
        <<Group(<<Branch(<<<<Lit(<<"m", "s">>)>>, <<Lit(<<"f", "s">>)>>, <<Lit(<<"b", "g">>)>>, <<Lit(<<"h", "s">>)>>>>)>>), MaxRepeat(0, Unbounded, <<In({}, {"space"})>>), MaxRepeat(1, Unbounded, <<In({}, {"digit"})>>), MaxRepeat(0, Unbounded, <<AnyChar>>), Group(<<Branch(<<<<Lit(<<"v", "s">>)>>, <<Lit(<<"v", "e", "r", "s", "u", "s">>)>>, <<Lit(<<"o", "r">>)>>, <<Lit(<<"c", "o", "m", "p", "a", "r", "e", "d">>)>>>>)>>)>>),
       \* (feature|specification|spec|weight|power|engine|battery)
       Pattern(<<"(", "f", "e", "a", "t", "u", "r", "e", "|", "s", "p", "e", "c", "i", "f", "i", "c", "a", "t", "i", "o", "n", "|", "s", "p", "e", "c", "|", "w", "e", "i", "g", "h", "t", "|", "p", "o", "w", "e", "r", "|", "e", "n", "g", "i", "n", "e", "|", "b", "a", "t", "t", "e", "r", "y", ")">>,
        <<Group(<<Branch(<<<<Lit(<<"f", "e", "a", "t", "u", "r", "e">>)>>, <<Lit(<<"s", "p", "e", "c", "i", "f", "i", "c", "a", "t", "i", "o", "n">>)>>, <<Lit(<<"s", "p", "e", "c">>)>>, <<Lit(<<"w", "e", "i", "g", "h", "t">>)>>, <<Lit(<<"p", "o", "w", "e", "r">>)>>, <<Lit(<<"e", "n", "g", "i", "n", "e">>)>>, <<Lit(<<"b", "a", "t", "t", "e", "r", "y">>)>>>>)>>)>>),
       \* (anti.?vibration|easy.?start|m.?tronic|intellicarb)
       Pattern(<<"(", "a", "n", "t", "i", ".", "?", "v", "i", "b", "r", "a", "t", "i", "o", "n", "|", "e", "a", "s", "y", ".", "?", "s", "t", "a", "r", "t", "|", "m", ".", "?", "t", "r", "o", "n", "i", "c", "|", "i", "n", "t", "e", "l", "l", "i", "c", "a", "r", "b", ")">>,
        <<Group(<<Branch(<<<<Lit(<<"a", "n", "t", "i">>), MaxRepeat(0, 1, <<AnyChar>>), Lit(<<"v", "i", "b", "r", "a", "t", "i", "o", "n">>)>>, <<Lit(<<"e", "a", "s", "y">>), MaxRepeat(0, 1, <<AnyChar>>), Lit(<<"s", "t", "a", "r", "t">>)>>, <<Lit(<<"m">>), MaxRepeat(0, 1, <<AnyChar>>), Lit(<<"t", "r", "o", "n", "i", "c">>)>>, <<Lit(<<"i", "n", "t", "e", "l", "l", "i", "c", "a", "r", "b">>)>>>>)>>)>>),
       \* (professional|homeowner|commercial|residential).*(use|grade)
       Pattern(<<"(", "p", "r", "o", "f", "e", "s", "s", "i", "o", "n", "a", "l", "|", "h", "o", "m", "e", "o", "w", "n", "e", "r", "|", "c", "o", "m", "m", "e", "r", "c", "i", "a", "l", "|", "r", "e", "s", "i", "d", "e", "n", "t", "i", "a", "l", ")", ".", "*", "(", "u", "s", "e", "|", "g", "r", "a", "d", "e", ")">>,
        <<Group(<<Branch(<<<<Lit(<<"p", "r", "o", "f", "e", "s", "s", "i", "o", "n", "a", "l">>)>>, <<Lit(<<"h", "o", "m", "e", "o", "w", "n", "e", "r">>)>>, <<Lit(<<"c", "o", "m", "m", "e", "r", "c", "i", "a", "l">>)>>, <<Lit(<<"r", "e", "s", "i", "d", "e", "n", "t", "i", "a", "l">>)>>>>)>>), MaxRepeat(0, Unbounded, <<AnyChar>>), Group(<<Branch(<<<<Lit(<<"u", "s", "e">>)>>, <<Lit(<<"g", "r", "a", "d", "e">>)>>>>)>>)>>),
       \* (heavy|light).*(duty)
       Pattern(<<"(", "h", "e", "a", "v", "y", "|", "l", "i", "g", "h", "t", ")", ".", "*", "(", "d", "u", "t", "y", ")">>,
        <<Group(<<Branch(<<<<Lit(<<"h", "e", "a", "v", "y">>)>>, <<Lit(<<"l", "i", "g", "h", "t">>)>>>>)>>), MaxRepeat(0, Unbounded, <<AnyChar>>), Group(<<Lit(<<"d", "u", "t", "y">>)>>)>>),
       \* (logging|firewood|yard|lawn|garden)
       Pattern(<<"(", "l", "o", "g", "g", "i", "n", "g", "|", "f", "i", "r", "e", "w", "o", "o", "d", "|", "y", "a", "r", "d", "|", "l", "a", "w", "n", "|", "g", "a", "r", "d", "e", "n", ")">>,
        <<Group(<<Branch(<<<<Lit(<<"l", "o", "g", "g", "i", "n", "g">>)>>, <<Lit(<<"f", "i", "r", "e", "w", "o", "o", "d">>)>>, <<Lit(<<"y", "a", "r", "d">>)>>, <<Lit(<<"l", "a", "w", "n">>)>>, <<Lit(<<"g", "a", "r", "d", "e", "n">>)>>>>)>>)>>),
       \* (battery.powered|gas.powered|electric|cordless)
       Pattern(<<"(", "b", "a", "t", "t", "e", "r", "y", ".", "p", "o", "w", "e", "r", "e", "d", "|", "g", "a", "s", ".", "p", "o", "w", "e", "r", "e", "d", "|", "e", "l", "e", "c", "t", "r", "i", "c", "|", "c", "o", "r", "d", "l", "e", "s", "s", ")">>,
        <<Group(<<Branch(<<<<Lit(<<"b", "a", "t", "t", "e", "r", "y">>), AnyChar, Lit(<<"p", "o", "w", "e", "r", "e", "d">>)>>, <<Lit(<<"g", "a", "s">>), AnyChar, Lit(<<"p", "o", "w", "e", "r", "e", "d">>)>>, <<Lit(<<"e", "l", "e", "c", "t", "r", "i", "c">>)>>, <<Lit(<<"c", "o", "r", "d", "l", "e", "s", "s">>)>>>>)>>)>>) >>

\* ProductSkill: its name, trigger rules, tools, priority and confidence rule
ProductSkill ==
    [name |-> "product_expert",
     triggers |-> ProductSkillTriggers,
     tools |-> <<"search_products", "compare_products", "get_product_recommendations">>,
     priority |-> 20,
     calculate_confidence |-> "BaseSkill"]

\* SalesSkill.triggers: each rule as written and as re parses it
SalesSkillTriggers ==
    << \* \brevenue\b
       Pattern(<<"\\", "b", "r", "e", "v", "e", "n", "u", "e", "\\", "b">>,
        <<AtBoundary, Lit(<<"r", "e", "v", "e", "n", "u", "e">>), AtBoundary>>),
       \* \bsales\b(?!.*forecast)
       Pattern(<<"\\", "b", "s", "a", "l", "e", "s", "\\", "b", "(", "?", "!", ".", "*", "f", "o", "r", "e", "c", "a", "s", "t", ")">>,
        <<AtBoundary, Lit(<<"s", "a", "l", "e", "s">>), AtBoundary, AssertNot(<<MaxRepeat(0, Unbounded, <<AnyChar>>), Lit(<<"f", "o", "r", "e", "c", "a", "s", "t">>)>>)>>),
       \* \bsold\b
       Pattern(<<"\\", "b", "s", "o", "l", "d", "\\", "b">>,
        <<AtBoundary, Lit(<<"s", "o", "l", "d">>), AtBoundary>>),
       \* how much.*(made|earned)
       Pattern(<<"h", "o", "w", " ", "m", "u", "c", "h", ".", "*", "(", "m", "a", "d", "e", "|", "e", "a", "r", "n", "e", "d", ")">>,
        <<Lit(<<"h", "o", "w", " ", "m", "u", "c", "h">>), MaxRepeat(0, Unbounded, <<AnyChar>>), Group(<<Branch(<<<<Lit(<<"m", "a", "d", "e">>)>>, <<Lit(<<"e", "a", "r", "n", "e", "d">>)>>>>)>>)>>),
       \* (top|best|worst|bottom).*(product|region|category|seller)(?!.*dealer)
       Pattern(<<"(", "t", "o", "p", "|", "b", "e", "s", "t", "|", "w", "o", "r", "s", "t", "|", "b", "o", "t", "t", "o", "m", ")", ".", "*", "(", "p", "r", "o", "d", "u", "c", "t", "|", "r", "e", "g", "i", "o", "n", "|", "c", "a", "t", "e", "g", "o", "r", "y", "|", "s", "e", "l", "l", "e", "r", ")", "(", "?", "!", ".", "*", "d", "e", "a", "l", "e", "r", ")">>,
        <<Group(<<Branch(<<<<Lit(<<"t", "o", "p">>)>>, <<Lit(<<"b", "e", "s", "t">>)>>, <<Lit(<<"w", "o", "r", "s", "t">>)>>, <<Lit(<<"b", "o", "t", "t", "o", "m">>)>>>>)>>), MaxRepeat(0, Unbounded, <<AnyChar>>), Group(<<Branch(<<<<Lit(<<"p", "r", "o", "d", "u", "c", "t">>)>>, <<Lit(<<"r", "e", "g", "i", "o", "n">>)>>, <<Lit(<<"c", "a", "t", "e", "g", "o", "r", "y">>)>>, <<Lit(<<"s", "e", "l", "l", "e", "r">>)>>>>)>>), AssertNot(<<MaxRepeat(0, Unbounded, <<AnyChar>>), Lit(<<"d", "e", "a", "l", "e", "r">>)>>)>>),
       \* (rank|ranking|leaderboard)
       Pattern(<<"(", "r", "a", "n", "k", "|", "r", "a", "n", "k", "i", "n", "g", "|", "l", "e", "a", "d", "e", "r", "b", "o", "a", "r", "d", ")">>,
        <<Group(<<Branch(<<<<Lit(<<"r", "a", "n", "k">>)>>, <<Lit(<<"r", "a", "n", "k", "i", "n", "g">>)>>, <<Lit(<<"l", "e", "a", "d", "e", "r", "b", "o", "a", "r", "d">>)>>>>)>>)>>),
       \* (ytd|year.to.date|mtd|qtd)
       Pattern(<<"(", "y", "t", "d", "|", "y", "e", "a", "r", ".", "t", "o", ".", "d", "a", "t", "e", "|", "m", "t", "d", "|", "q", "t", "d", ")">>,
        <<Group(<<Branch(<<<<Lit(<<"y", "t", "d">>)>>, <<Lit(<<"y", "e", "a", "r">>), AnyChar, Lit(<<"t", "o">>), AnyChar, Lit(<<"d", "a", "t", "e">>)>>, <<Lit(<<"m", "t", "d">>)>>, <<Lit(<<"q", "t", "d">>)>>>>)>>)>>),
       \* (last|previous|this).*(month|quarter|year).*(revenue|sales|total)
       Pattern(<<"(", "l", "a", "s", "t", "|", "p", "r", "e", "v", "i", "o", "u", "s", "|", "t", "h", "i", "s", ")", ".", "*", "(", "m", "o", "n", "t", "h", "|", "q", "u", "a", "r", "t", "e", "r", "|", "y", "e", "a", "r", ")", ".", "*", "(", "r", "e", "v", "e", "n", "u", "e", "|", "s", "a", "l", "e", "s", "|", "t", "o", "t", "a", "l", ")">>,
        <<Group(<<Branch(<<<<Lit(<<"l", "a", "s", "t">>)>>, <<Lit(<<"p", "r", "e", "v", "i", "o", "u", "s">>)>>, <<Lit(<<"t", "h", "i", "s">>)>>>>)>>), MaxRepeat(0, Unbounded, <<AnyChar>>), Group(<<Branch(<<<<Lit(<<"m", "o", "n", "t", "h">>)>>, <<Lit(<<"q", "u", "a", "r", "t", "e", "r">>)>>, <<Lit(<<"y", "e", "a", "r">>)>>>>)>>), MaxRepeat(0, Unbounded, <<AnyChar>>), Group(<<Branch(<<<<Lit(<<"r", "e", "v", "e", "n", "u", "e">>)>>, <<Lit(<<"s", "a", "l", "e", "s">>)>>, <<Lit(<<"t", "o", "t", "a", "l">>)>>>>)>>)>>),
       \* (2024|2025|q1|q2|q3|q4).*(revenue|sales|total)
       Pattern(<<"(", "2", "0", "2", "4", "|", "2", "0", "2", "5", "|", "q", "1", "|", "q", "2", "|", "q", "3", "|", "q", "4", ")", ".", "*", "(", "r", "e", "v", "e", "n", "u", "e", "|", "s", "a", "l", "e", "s", "|", "t", "o", "t", "a", "l", ")">>,
        <<Group(<<Branch(<<<<Lit(<<"2", "0", "2", "4">>)>>, <<Lit(<<"2", "0", "2", "5">>)>>, <<Lit(<<"q", "1">>)>>, <<Lit(<<"q", "2">>)>>, <<Lit(<<"q", "3">>)>>, <<Lit(<<"q", "4">>)>>>>)>>), MaxRepeat(0, Unbounded, <<AnyChar>>), Group(<<Branch(<<<<Lit(<<"r", "e", "v", "e", "n", "u", "e">>)>>, <<Lit(<<"s", "a", "l", "e", "s">>)>>, <<Lit(<<"t", "o", "t", "a", "l">>)>>>>)>>)>>),
       \* (breakdown|split|distribution).*(by|of)
       Pattern(<<"(", "b", "r", "e", "a", "k", "d", "o", "w", "n", "|", "s", "p", "l", "i", "t", "|", "d", "i", "s", "t", "r", "i", "b", "u", "t", "i", "o", "n", ")", ".", "*", "(", "b", "y", "|", "o", "f", ")">>,
        <<Group(<<Branch(<<<<Lit(<<"b", "r", "e", "a", "k", "d", "o", "w", "n">>)>>, <<Lit(<<"s", "p", "l", "i", "t">>)>>, <<Lit(<<"d", "i", "s", "t", "r", "i", "b", "u", "t", "i", "o", "n">>)>>>>)>>), MaxRepeat(0, Unbounded, <<AnyChar>>), Group(<<Branch(<<<<Lit(<<"b", "y">>)>>, <<Lit(<<"o", "f">>)>>>>)>>)>>),
       \* (by|per).*(region|category|product).*(sales|revenue)?
       Pattern(<<"(", "b", "y", "|", "p", "e", "r", ")", ".", "*", "(", "r", "e", "g", "i", "o", "n", "|", "c", "a", "t", "e", "g", "o", "r", "y", "|", "p", "r", "o", "d", "u", "c", "t", ")", ".", "*", "(", "s", "a", "l", "e", "s", "|", "r", "e", "v", "e", "n", "u", "e", ")", "?">>,
        <<Group(<<Branch(<<<<Lit(<<"b", "y">>)>>, <<Lit(<<"p", "e", "r">>)>>>>)>>), MaxRepeat(0, Unbounded, <<AnyChar>>), Group(<<Branch(<<<<Lit(<<"r", "e", "g", "i", "o", "n">>)>>, <<Lit(<<"c", "a", "t", "e", "g", "o", "r", "y">>)>>, <<Lit(<<"p", "r", "o", "d", "u", "c", "t">>)>>>>)>>), MaxRepeat(0, Unbounded, <<AnyChar>>), MaxRepeat(0, 1, <<Group(<<Branch(<<<<Lit(<<"s", "a", "l", "e", "s">>)>>, <<Lit(<<"r", "e", "v", "e", "n", "u", "e">>)>>>>)>>)>>)>>),
       \* (regional|category).*(breakdown|performance|sales)
       Pattern(<<"(", "r", "e", "g", "i", "o", "n", "a", "l", "|", "c", "a", "t", "e", "g", "o", "r", "y", ")", ".", "*", "(", "b", "r", "e", "a", "k", "d", "o", "w", "n", "|", "p", "e", "r", "f", "o", "r", "m", "a", "n", "c", "e", "|", "s", "a", "l", "e", "s", ")">>,
        <<Group(<<Branch(<<<<Lit(<<"r", "e", "g", "i", "o", "n", "a", "l">>)>>, <<Lit(<<"c", "a", "t", "e", "g", "o", "r", "y">>)>>>>)>>), MaxRepeat(0, Unbounded, <<AnyChar>>), Group(<<Branch(<<<<Lit(<<"b", "r", "e", "a", "k", "d", "o", "w", "n">>)>>, <<Lit(<<"p", "e", "r", "f", "o", "r", "m", "a", "n", "c", "e">>)>>, <<Lit(<<"s", "a", "l", "e", "s">>)>>>>)>>)>>) >>

\* SalesSkill: its name, trigger rules, tools, priority and confidence rule
SalesSkill ==
    [name |-> "sales_analyst",
     triggers |-> SalesSkillTriggers,
     tools |-> <<"query_sales_data">>,
     priority |-> 15,
     calculate_confidence |-> "BaseSkill"]

\* InventorySkill.triggers: each rule as written and as re parses it
InventorySkillTriggers ==
    << \* \binventory
       Pattern(<<"\\", "b", "i", "n", "v", "e", "n", "t", "o", "r", "y">>,
        <<AtBoundary, Lit(<<"i", "n", "v", "e", "n", "t", "o", "r", "y">>)>>),
       \* \bstock\b
       Pattern(<<"\\", "b", "s", "t", "o", "c", "k", "\\", "b">>,
        <<AtBoundary, Lit(<<"s", "t", "o", "c", "k">>), AtBoundary>>),
       \* \bstockout
       Pattern(<<"\\", "b", "s", "t", "o", "c", "k", "o", "u", "t">>,
        <<AtBoundary, Lit(<<"s", "t", "o", "c", "k", "o", "u", "t">>)>>),
       \* \bstock.?out
       Pattern(<<"\\", "b", "s", "t", "o", "c", "k", ".", "?", "o", "u", "t">>,
        <<AtBoundary, Lit(<<"s", "t", "o", "c", "k">>), MaxRepeat(0, 1, <<AnyChar>>), Lit(<<"o", "u", "t">>)>>),
       \* (low|critical|out of).*(stock|inventory)
       Pattern(<<"(", "l", "o", "w", "|", "c", "r", "i", "t", "i", "c", "a", "l", "|", "o", "u", "t", " ", "o", "f", ")", ".", "*", "(", "s", "t", "o", "c", "k", "|", "i", "n", "v", "e", "n", "t", "o", "r", "y", ")">>,
        <<Group(<<Branch(<<<<Lit(<<"l", "o", "w">>)>>, <<Lit(<<"c", "r", "i", "t", "i", "c", "a", "l">>)>>, <<Lit(<<"o", "u", "t", " ", "o", "f">>)>>>>)>>), MaxRepeat(0, Unbounded, <<AnyChar>>), Group(<<Branch(<<<<Lit(<<"s", "t", "o", "c", "k">>)>>, <<Lit(<<"i", "n", "v", "e", "n", "t", "o", "r", "y">>)>>>>)>>)>>),
       \* running low
       Pattern(<<"r", "u", "n", "n", "i", "n", "g", " ", "l", "o", "w">>,
        <<Lit(<<"r", "u", "n", "n", "i", "n", "g", " ", "l", "o", "w">>)>>),
       \* (in stock|on hand)
       Pattern(<<"(", "i", "n", " ", "s", "t", "o", "c", "k", "|", "o", "n", " ", "h", "a", "n", "d", ")">>,
        <<Group(<<Branch(<<<<Lit(<<"i", "n", " ", "s", "t", "o", "c", "k">>)>>, <<Lit(<<"o", "n", " ", "h", "a", "n", "d">>)>>>>)>>)>>),
       \* how (much|many).*(inventory|stock|left|remaining)
       Pattern(<<"h", "o", "w", " ", "(", "m", "u", "c", "h", "|", "m", "a", "n", "y", ")", ".", "*", "(", "i", "n", "v", "e", "n", "t", "o", "r", "y", "|", "s", "t", "o", "c", "k", "|", "l", "e", "f", "t", "|", "r", "e", "m", "a", "i", "n", "i", "n", "g", ")">>,
        <<Lit(<<"h", "o", "w", " ">>), Group(<<Lit(<<"m">>), Branch(<<<<Lit(<<"u", "c", "h">>)>>, <<Lit(<<"a", "n", "y">>)>>>>)>>), MaxRepeat(0, Unbounded, <<AnyChar>>), Group(<<Branch(<<<<Lit(<<"i", "n", "v", "e", "n", "t", "o", "r", "y">>)>>, <<Lit(<<"s", "t", "o", "c", "k">>)>>, <<Lit(<<"l", "e", "f", "t">>)>>, <<Lit(<<"r", "e", "m", "a", "i", "n", "i", "n", "g">>)>>>>)>>)>>),
       \* days.*(of)?.*(supply|inventory)
       Pattern(<<"d", "a", "y", "s", ".", "*", "(", "o", "f", ")", "?", ".", "*", "(", "s", "u", "p", "p", "l", "y", "|", "i", "n", "v", "e", "n", "t", "o", "r", "y", ")">>,
        <<Lit(<<"d", "a", "y", "s">>), MaxRepeat(0, Unbounded, <<AnyChar>>), MaxRepeat(0, 1, <<Group(<<Lit(<<"o", "f">>)>>)>>), MaxRepeat(0, Unbounded, <<AnyChar>>), Group(<<Branch(<<<<Lit(<<"s", "u", "p", "p", "l", "y">>)>>, <<Lit(<<"i", "n", "v", "e", "n", "t", "o", "r", "y">>)>>>>)>>)>>),
       \* (how long|when).*(last|run out)
       Pattern(<<"(", "h", "o", "w", " ", "l", "o", "n", "g", "|", "w", "h", "e", "n", ")", ".", "*", "(", "l", "a", "s", "t", "|", "r", "u", "n", " ", "o", "u", "t", ")">>,
        <<Group(<<Branch(<<<<Lit(<<"h", "o", "w", " ", "l", "o", "n", "g">>)>>, <<Lit(<<"w", "h", "e", "n">>)>>>>)>>), MaxRepeat(0, Unbounded, <<AnyChar>>), Group(<<Branch(<<<<Lit(<<"l", "a", "s", "t">>)>>, <<Lit(<<"r", "u", "n", " ", "o", "u", "t">>)>>>>)>>)>>),
       \* warehouse
       Pattern(<<"w", "a", "r", "e", "h", "o", "u", "s", "e">>,
        <<Lit(<<"w", "a", "r", "e", "h", "o", "u", "s", "e">>)>>),
       \* distribution.center
       Pattern(<<"d", "i", "s", "t", "r", "i", "b", "u", "t", "i", "o", "n", ".", "c", "e", "n", "t", "e", "r">>,
        <<Lit(<<"d", "i", "s", "t", "r", "i", "b", "u", "t", "i", "o", "n">>), AnyChar, Lit(<<"c", "e", "n", "t", "e", "r">>)>>),
       \* (restock|reorder|replenish)
       Pattern(<<"(", "r", "e", "s", "t", "o", "c", "k", "|", "r", "e", "o", "r", "d", "e", "r", "|", "r", "e", "p", "l", "e", "n", "i", "s", "h", ")">>,
        <<Group(<<Lit(<<"r", "e">>), Branch(<<<<Lit(<<"s", "t", "o", "c", "k">>)>>, <<Lit(<<"o", "r", "d", "e", "r">>)>>, <<Lit(<<"p", "l", "e", "n", "i", "s", "h">>)>>>>)>>)>>),
       \* (critical|low|normal).*(status|level)
       Pattern(<<"(", "c", "r", "i", "t", "i", "c", "a", "l", "|", "l", "o", "w", "|", "n", "o", "r", "m", "a", "l", ")", ".", "*", "(", "s", "t", "a", "t", "u", "s", "|", "l", "e", "v", "e", "l", ")">>,
        <<Group(<<Branch(<<<<Lit(<<"c", "r", "i", "t", "i", "c", "a", "l">>)>>, <<Lit(<<"l", "o", "w">>)>>, <<Lit(<<"n", "o", "r", "m", "a", "l">>)>>>>)>>), MaxRepeat(0, Unbounded, <<AnyChar>>), Group(<<Branch(<<<<Lit(<<"s", "t", "a", "t", "u", "s">>)>>, <<Lit(<<"l", "e", "v", "e", "l">>)>>>>)>>)>>) >>

\* InventorySkill: its name, trigger rules, tools, priority and confidence rule
InventorySkill ==
    [name |-> "inventory_analyst",
     triggers |-> InventorySkillTriggers,
     tools |-> <<"query_inventory_data">>,
     priority |-> 17,
     calculate_confidence |-> "BaseSkill"]

\* InsightsSkill.triggers: each rule as written and as re parses it
InsightsSkillTriggers ==
    << \* anomal.*(2024|2025|q[1-4]|march|april|january|february|may|june|july|august|september|october|november|december)
       Pattern(<<"a", "n", "o", "m", "a", "l", ".", "*", "(", "2", "0", "2", "4", "|", "2", "0", "2", "5", "|", "q", "[", "1", "-", "4", "]", "|", "m", "a", "r", "c", "h", "|", "a", "p", "r", "i", "l", "|", "j", "a", "n", "u", "a", "r", "y", "|", "f", "e", "b", "r", "u", "a", "r", "y", "|", "m", "a", "y", "|", "j", "u", "n", "e", "|", "j", "u", "l", "y", "|", "a", "u", "g", "u", "s", "t", "|", "s", "e", "p", "t", "e", "m", "b", "e", "r", "|", "o", "c", "t", "o", "b", "e", "r", "|", "n", "o", "v", "e", "m", "b", "e", "r", "|", "d", "e", "c", "e", "m", "b", "e", "r", ")">>,
        <<Lit(<<"a", "n", "o", "m", "a", "l">>), MaxRepeat(0, Unbounded, <<AnyChar>>), Group(<<Branch(<<<<Lit(<<"2", "0", "2", "4">>)>>, <<Lit(<<"2", "0", "2", "5">>)>>, <<Lit(<<"q">>), In({"1", "2", "3", "4"}, {})>>, <<Lit(<<"m", "a", "r", "c", "h">>)>>, <<Lit(<<"a", "p", "r", "i", "l">>)>>, <<Lit(<<"j", "a", "n", "u", "a", "r", "y">>)>>, <<Lit(<<"f", "e", "b", "r", "u", "a", "r", "y">>)>>, <<Lit(<<"m", "a", "y">>)>>, <<Lit(<<"j", "u", "n", "e">>)>>, <<Lit(<<"j", "u", "l", "y">>)>>, <<Lit(<<"a", "u", "g", "u", "s", "t">>)>>, <<Lit(<<"s", "e", "p", "t", "e", "m", "b", "e", "r">>)>>, <<Lit(<<"o", "c", "t", "o", "b", "e", "r">>)>>, <<Lit(<<"n", "o", "v", "e", "m", "b", "e", "r">>)>>, <<Lit(<<"d", "e", "c", "e", "m", "b", "e", "r">>)>>>>)>>)>>),
       \* (detect|find|run).*anomal
       Pattern(<<"(", "d", "e", "t", "e", "c", "t", "|", "f", "i", "n", "d", "|", "r", "u", "n", ")", ".", "*", "a", "n", "o", "m", "a", "l">>,
        <<Group(<<Branch(<<<<Lit(<<"d", "e", "t", "e", "c", "t">>)>>, <<Lit(<<"f", "i", "n", "d">>)>>, <<Lit(<<"r", "u", "n">>)>>>>)>>), MaxRepeat(0, Unbounded, <<AnyChar>>), Lit(<<"a", "n", "o", "m", "a", "l">>)>>),
       \* ^(good\s+)?(morning|afternoon|evening|day)
       Pattern(<<"^", "(", "g", "o", "o", "d", "\\", "s", "+", ")", "?", "(", "m", "o", "r", "n", "i", "n", "g", "|", "a", "f", "t", "e", "r", "n", "o", "o", "n", "|", "e", "v", "e", "n", "i", "n", "g", "|", "d", "a", "y", ")">>,
        <<AtBeginning, MaxRepeat(0, 1, <<Group(<<Lit(<<"g", "o", "o", "d">>), MaxRepeat(1, Unbounded, <<In({}, {"space"})>>)>>)>>), Group(<<Branch(<<<<Lit(<<"m", "o", "r", "n", "i", "n", "g">>)>>, <<Lit(<<"a", "f", "t", "e", "r", "n", "o", "o", "n">>)>>, <<Lit(<<"e", "v", "e", "n", "i", "n", "g">>)>>, <<Lit(<<"d", "a", "y">>)>>>>)>>)>>),
       \* ^(hi|hello|hey)\s*(!|,|\.|$)
       Pattern(<<"^", "(", "h", "i", "|", "h", "e", "l", "l", "o", "|", "h", "e", "y", ")", "\\", "s", "*", "(", "!", "|", ",", "|", "\\", ".", "|", "$", ")">>,
        <<AtBeginning, Group(<<Lit(<<"h">>), Branch(<<<<Lit(<<"i">>)>>, <<Lit(<<"e", "l", "l", "o">>)>>, <<Lit(<<"e", "y">>)>>>>)>>), MaxRepeat(0, Unbounded, <<In({}, {"space"})>>), Group(<<Branch(<<<<Lit(<<"!">>)>>, <<Lit(<<",">>)>>, <<Lit(<<".">>)>>, <<AtEnd>>>>)>>)>>),
       \* (daily|morning|weekly)\s+.*(briefing|update|summary|report)
       Pattern(<<"(", "d", "a", "i", "l", "y", "|", "m", "o", "r", "n", "i", "n", "g", "|", "w", "e", "e", "k", "l", "y", ")", "\\", "s", "+", ".", "*", "(", "b", "r", "i", "e", "f", "i", "n", "g", "|", "u", "p", "d", "a", "t", "e", "|", "s", "u", "m", "m", "a", "r", "y", "|", "r", "e", "p", "o", "r", "t", ")">>,
        <<Group(<<Branch(<<<<Lit(<<"d", "a", "i", "l", "y">>)>>, <<Lit(<<"m", "o", "r", "n", "i", "n", "g">>)>>, <<Lit(<<"w", "e", "e", "k", "l", "y">>)>>>>)>>), MaxRepeat(1, Unbounded, <<In({}, {"space"})>>), MaxRepeat(0, Unbounded, <<AnyChar>>), Group(<<Branch(<<<<Lit(<<"b", "r", "i", "e", "f", "i", "n", "g">>)>>, <<Lit(<<"u", "p", "d", "a", "t", "e">>)>>, <<Lit(<<"s", "u", "m", "m", "a", "r", "y">>)>>, <<Lit(<<"r", "e", "p", "o", "r", "t">>)>>>>)>>)>>),
       \* (what|anything).*(should|need).*(know|attention|aware)
       Pattern(<<"(", "w", "h", "a", "t", "|", "a", "n", "y", "t", "h", "i", "n", "g", ")", ".", "*", "(", "s", "h", "o", "u", "l", "d", "|", "n", "e", "e", "d", ")", ".", "*", "(", "k", "n", "o", "w", "|", "a", "t", "t", "e", "n", "t", "i", "o", "n", "|", "a", "w", "a", "r", "e", ")">>,
        <<Group(<<Branch(<<<<Lit(<<"w", "h", "a", "t">>)>>, <<Lit(<<"a", "n", "y", "t", "h", "i", "n", "g">>)>>>>)>>), MaxRepeat(0, Unbounded, <<AnyChar>>), Group(<<Branch(<<<<Lit(<<"s", "h", "o", "u", "l", "d">>)>>, <<Lit(<<"n", "e", "e", "d">>)>>>>)>>), MaxRepeat(0, Unbounded, <<AnyChar>>), Group(<<Branch(<<<<Lit(<<"k", "n", "o", "w">>)>>, <<Lit(<<"a", "t", "t", "e", "n", "t", "i", "o", "n">>)>>, <<Lit(<<"a", "w", "a", "r", "e">>)>>>>)>>)>>),
       \* (catch me up|bring me up|update me)
       Pattern(<<"(", "c", "a", "t", "c", "h", " ", "m", "e", " ", "u", "p", "|", "b", "r", "i", "n", "g", " ", "m", "e", " ", "u", "p", "|", "u", "p", "d", "a", "t", "e", " ", "m", "e", ")">>,
        <<Group(<<Branch(<<<<Lit(<<"c", "a", "t", "c", "h", " ", "m", "e", " ", "u", "p">>)>>, <<Lit(<<"b", "r", "i", "n", "g", " ", "m", "e", " ", "u", "p">>)>>, <<Lit(<<"u", "p", "d", "a", "t", "e", " ", "m", "e">>)>>>>)>>)>>),
       \* (alert|warning|issue|problem|concern)
       Pattern(<<"(", "a", "l", "e", "r", "t", "|", "w", "a", "r", "n", "i", "n", "g", "|", "i", "s", "s", "u", "e", "|", "p", "r", "o", "b", "l", "e", "m", "|", "c", "o", "n", "c", "e", "r", "n", ")">>,
        <<Group(<<Branch(<<<<Lit(<<"a", "l", "e", "r", "t">>)>>, <<Lit(<<"w", "a", "r", "n", "i", "n", "g">>)>>, <<Lit(<<"i", "s", "s", "u", "e">>)>>, <<Lit(<<"p", "r", "o", "b", "l", "e", "m">>)>>, <<Lit(<<"c", "o", "n", "c", "e", "r", "n">>)>>>>)>>)>>),
       \* (any|are there)\s+.*(alert|issue|problem|anomal)
       Pattern(<<"(", "a", "n", "y", "|", "a", "r", "e", " ", "t", "h", "e", "r", "e", ")", "\\", "s", "+", ".", "*", "(", "a", "l", "e", "r", "t", "|", "i", "s", "s", "u", "e", "|", "p", "r", "o", "b", "l", "e", "m", "|", "a", "n", "o", "m", "a", "l", ")">>,
        <<Group(<<Lit(<<"a">>), Branch(<<<<Lit(<<"n", "y">>)>>, <<Lit(<<"r", "e", " ", "t", "h", "e", "r", "e">>)>>>>)>>), MaxRepeat(1, Unbounded, <<In({}, {"space"})>>), MaxRepeat(0, Unbounded, <<AnyChar>>), Group(<<Branch(<<<<Lit(<<"a", "l", "e", "r", "t">>)>>, <<Lit(<<"i", "s", "s", "u", "e">>)>>, <<Lit(<<"p", "r", "o", "b", "l", "e", "m">>)>>, <<Lit(<<"a", "n", "o", "m", "a", "l">>)>>>>)>>)>>),
       \* (what|which).*(wrong|issue|problem|attention)
       Pattern(<<"(", "w", "h", "a", "t", "|", "w", "h", "i", "c", "h", ")", ".", "*", "(", "w", "r", "o", "n", "g", "|", "i", "s", "s", "u", "e", "|", "p", "r", "o", "b", "l", "e", "m", "|", "a", "t", "t", "e", "n", "t", "i", "o", "n", ")">>,
        <<Group(<<Lit(<<"w", "h">>), Branch(<<<<Lit(<<"a", "t">>)>>, <<Lit(<<"i", "c", "h">>)>>>>)>>), MaxRepeat(0, Unbounded, <<AnyChar>>), Group(<<Branch(<<<<Lit(<<"w", "r", "o", "n", "g">>)>>, <<Lit(<<"i", "s", "s", "u", "e">>)>>, <<Lit(<<"p", "r", "o", "b", "l", "e", "m">>)>>, <<Lit(<<"a", "t", "t", "e", "n", "t", "i", "o", "n">>)>>>>)>>)>>),
       \* (urgent|critical|important).*(issue|alert|matter)
       Pattern(<<"(", "u", "r", "g", "e", "n", "t", "|", "c", "r", "i", "t", "i", "c", "a", "l", "|", "i", "m", "p", "o", "r", "t", "a", "n", "t", ")", ".", "*", "(", "i", "s", "s", "u", "e", "|", "a", "l", "e", "r", "t", "|", "m", "a", "t", "t", "e", "r", ")">>,
        <<Group(<<Branch(<<<<Lit(<<"u", "r", "g", "e", "n", "t">>)>>, <<Lit(<<"c", "r", "i", "t", "i", "c", "a", "l">>)>>, <<Lit(<<"i", "m", "p", "o", "r", "t", "a", "n", "t">>)>>>>)>>), MaxRepeat(0, Unbounded, <<AnyChar>>), Group(<<Branch(<<<<Lit(<<"i", "s", "s", "u", "e">>)>>, <<Lit(<<"a", "l", "e", "r", "t">>)>>, <<Lit(<<"m", "a", "t", "t", "e", "r">>)>>>>)>>)>>),
       \* anomal.*(20\d{2}|q[1-4]|jan|feb|mar|apr|may|jun|jul|aug|sep|oct|nov|dec)
       Pattern(<<"a", "n", "o", "m", "a", "l", ".", "*", "(", "2", "0", "\\", "d", "{", "2", "}", "|", "q", "[", "1", "-", "4", "]", "|", "j", "a", "n", "|", "f", "e", "b", "|", "m", "a", "r", "|", "a", "p", "r", "|", "m", "a", "y", "|", "j", "u", "n", "|", "j", "u", "l", "|", "a", "u", "g", "|", "s", "e", "p", "|", "o", "c", "t", "|", "n", "o", "v", "|", "d", "e", "c", ")">>,
        <<Lit(<<"a", "n", "o", "m", "a", "l">>), MaxRepeat(0, Unbounded, <<AnyChar>>), Group(<<Branch(<<<<Lit(<<"2", "0">>), MaxRepeat(2, 2, <<In({}, {"digit"})>>)>>, <<Lit(<<"q">>), In({"1", "2", "3", "4"}, {})>>, <<Lit(<<"j", "a", "n">>)>>, <<Lit(<<"f", "e", "b">>)>>, <<Lit(<<"m", "a", "r">>)>>, <<Lit(<<"a", "p", "r">>)>>, <<Lit(<<"m", "a", "y">>)>>, <<Lit(<<"j", "u", "n">>)>>, <<Lit(<<"j", "u", "l">>)>>, <<Lit(<<"a", "u", "g">>)>>, <<Lit(<<"s", "e", "p">>)>>, <<Lit(<<"o", "c", "t">>)>>, <<Lit(<<"n", "o", "v">>)>>, <<Lit(<<"d", "e", "c">>)>>>>)>>)>>),
       \* (anomal|unusual|abnormal|unexpected|outlier|spike|drop)
       Pattern(<<"(", "a", "n", "o", "m", "a", "l", "|", "u", "n", "u", "s", "u", "a", "l", "|", "a", "b", "n", "o", "r", "m", "a", "l", "|", "u", "n", "e", "x", "p", "e", "c", "t", "e", "d", "|", "o", "u", "t", "l", "i", "e", "r", "|", "s", "p", "i", "k", "e", "|", "d", "r", "o", "p", ")">>,
        <<Group(<<Branch(<<<<Lit(<<"a", "n", "o", "m", "a", "l">>)>>, <<Lit(<<"u", "n", "u", "s", "u", "a", "l">>)>>, <<Lit(<<"a", "b", "n", "o", "r", "m", "a", "l">>)>>, <<Lit(<<"u", "n", "e", "x", "p", "e", "c", "t", "e", "d">>)>>, <<Lit(<<"o", "u", "t", "l", "i", "e", "r">>)>>, <<Lit(<<"s", "p", "i", "k", "e">>)>>, <<Lit(<<"d", "r", "o", "p">>)>>>>)>>)>>),
       \* (detect|find|identify)\s+.*(anomal|unusual|pattern)
       Pattern(<<"(", "d", "e", "t", "e", "c", "t", "|", "f", "i", "n", "d", "|", "i", "d", "e", "n", "t", "i", "f", "y", ")", "\\", "s", "+", ".", "*", "(", "a", "n", "o", "m", "a", "l", "|", "u", "n", "u", "s", "u", "a", "l", "|", "p", "a", "t", "t", "e", "r", "n", ")">>,
        <<Group(<<Branch(<<<<Lit(<<"d", "e", "t", "e", "c", "t">>)>>, <<Lit(<<"f", "i", "n", "d">>)>>, <<Lit(<<"i", "d", "e", "n", "t", "i", "f", "y">>)>>>>)>>), MaxRepeat(1, Unbounded, <<In({}, {"space"})>>), MaxRepeat(0, Unbounded, <<AnyChar>>), Group(<<Branch(<<<<Lit(<<"a", "n", "o", "m", "a", "l">>)>>, <<Lit(<<"u", "n", "u", "s", "u", "a", "l">>)>>, <<Lit(<<"p", "a", "t", "t", "e", "r", "n">>)>>>>)>>)>>),
       \* (something).*(off|wrong|unusual|strange)
       Pattern(<<"(", "s", "o", "m", "e", "t", "h", "i", "n", "g", ")", ".", "*", "(", "o", "f", "f", "|", "w", "r", "o", "n", "g", "|", "u", "n", "u", "s", "u", "a", "l", "|", "s", "t", "r", "a", "n", "g", "e", ")">>,
        <<Group(<<Lit(<<"s", "o", "m", "e", "t", "h", "i", "n", "g">>)>>), MaxRepeat(0, Unbounded, <<AnyChar>>), Group(<<Branch(<<<<Lit(<<"o", "f", "f">>)>>, <<Lit(<<"w", "r", "o", "n", "g">>)>>, <<Lit(<<"u", "n", "u", "s", "u", "a", "l">>)>>, <<Lit(<<"s", "t", "r", "a", "n", "g", "e">>)>>>>)>>)>>),
       \* (deviation|variance|fluctuation)
       Pattern(<<"(", "d", "e", "v", "i", "a", "t", "i", "o", "n", "|", "v", "a", "r", "i", "a", "n", "c", "e", "|", "f", "l", "u", "c", "t", "u", "a", "t", "i", "o", "n", ")">>,
        <<Group(<<Branch(<<<<Lit(<<"d", "e", "v", "i", "a", "t", "i", "o", "n">>)>>, <<Lit(<<"v", "a", "r", "i", "a", "n", "c", "e">>)>>, <<Lit(<<"f", "l", "u", "c", "t", "u", "a", "t", "i", "o", "n">>)>>>>)>>)>>),
       \* (insight|observation|finding|discovery)
       Pattern(<<"(", "i", "n", "s", "i", "g", "h", "t", "|", "o", "b", "s", "e", "r", "v", "a", "t", "i", "o", "n", "|", "f", "i", "n", "d", "i", "n", "g", "|", "d", "i", "s", "c", "o", "v", "e", "r", "y", ")">>,
        <<Group(<<Branch(<<<<Lit(<<"i", "n", "s", "i", "g", "h", "t">>)>>, <<Lit(<<"o", "b", "s", "e", "r", "v", "a", "t", "i", "o", "n">>)>>, <<Lit(<<"f", "i", "n", "d", "i", "n", "g">>)>>, <<Lit(<<"d", "i", "s", "c", "o", "v", "e", "r", "y">>)>>>>)>>)>>),
       \* (what|any).*(insight|observation|notable|interesting)
       Pattern(<<"(", "w", "h", "a", "t", "|", "a", "n", "y", ")", ".", "*", "(", "i", "n", "s", "i", "g", "h", "t", "|", "o", "b", "s", "e", "r", "v", "a", "t", "i", "o", "n", "|", "n", "o", "t", "a", "b", "l", "e", "|", "i", "n", "t", "e", "r", "e", "s", "t", "i", "n", "g", ")">>,
        <<Group(<<Branch(<<<<Lit(<<"w", "h", "a", "t">>)>>, <<Lit(<<"a", "n", "y">>)>>>>)>>), MaxRepeat(0, Unbounded, <<AnyChar>>), Group(<<Branch(<<<<Lit(<<"i", "n", "s", "i", "g", "h", "t">>)>>, <<Lit(<<"o", "b", "s", "e", "r", "v", "a", "t", "i", "o", "n">>)>>, <<Lit(<<"n", "o", "t", "a", "b", "l", "e">>)>>, <<Lit(<<"i", "n", "t", "e", "r", "e", "s", "t", "i", "n", "g">>)>>>>)>>)>>),
       \* (trend|pattern).*(notice|see|identify|detect)
       Pattern(<<"(", "t", "r", "e", "n", "d", "|", "p", "a", "t", "t", "e", "r", "n", ")", ".", "*", "(", "n", "o", "t", "i", "c", "e", "|", "s", "e", "e", "|", "i", "d", "e", "n", "t", "i", "f", "y", "|", "d", "e", "t", "e", "c", "t", ")">>,
        <<Group(<<Branch(<<<<Lit(<<"t", "r", "e", "n", "d">>)>>, <<Lit(<<"p", "a", "t", "t", "e", "r", "n">>)>>>>)>>), MaxRepeat(0, Unbounded, <<AnyChar>>), Group(<<Branch(<<<<Lit(<<"n", "o", "t", "i", "c", "e">>)>>, <<Lit(<<"s", "e", "e">>)>>, <<Lit(<<"i", "d", "e", "n", "t", "i", "f", "y">>)>>, <<Lit(<<"d", "e", "t", "e", "c", "t">>)>>>>)>>)>>),
       \* (proactive|ahead|anticipate)
       Pattern(<<"(", "p", "r", "o", "a", "c", "t", "i", "v", "e", "|", "a", "h", "e", "a", "d", "|", "a", "n", "t", "i", "c", "i", "p", "a", "t", "e", ")">>,
        <<Group(<<Branch(<<<<Lit(<<"p", "r", "o", "a", "c", "t", "i", "v", "e">>)>>, <<Lit(<<"a", "h", "e", "a", "d">>)>>, <<Lit(<<"a", "n", "t", "i", "c", "i", "p", "a", "t", "e">>)>>>>)>>)>>),
       \* (forecast|predict|expect).*(issue|problem|alert)
       Pattern(<<"(", "f", "o", "r", "e", "c", "a", "s", "t", "|", "p", "r", "e", "d", "i", "c", "t", "|", "e", "x", "p", "e", "c", "t", ")", ".", "*", "(", "i", "s", "s", "u", "e", "|", "p", "r", "o", "b", "l", "e", "m", "|", "a", "l", "e", "r", "t", ")">>,
        <<Group(<<Branch(<<<<Lit(<<"f", "o", "r", "e", "c", "a", "s", "t">>)>>, <<Lit(<<"p", "r", "e", "d", "i", "c", "t">>)>>, <<Lit(<<"e", "x", "p", "e", "c", "t">>)>>>>)>>), MaxRepeat(0, Unbounded, <<AnyChar>>), Group(<<Branch(<<<<Lit(<<"i", "s", "s", "u", "e">>)>>, <<Lit(<<"p", "r", "o", "b", "l", "e", "m">>)>>, <<Lit(<<"a", "l", "e", "r", "t">>)>>>>)>>)>>),
       \* (risk|opportunity).*(identify|detect|see)
       Pattern(<<"(", "r", "i", "s", "k", "|", "o", "p", "p", "o", "r", "t", "u", "n", "i", "t", "y", ")", ".", "*", "(", "i", "d", "e", "n", "t", "i", "f", "y", "|", "d", "e", "t", "e", "c", "t", "|", "s", "e", "e", ")">>,
        <<Group(<<Branch(<<<<Lit(<<"r", "i", "s", "k">>)>>, <<Lit(<<"o", "p", "p", "o", "r", "t", "u", "n", "i", "t", "y">>)>>>>)>>), MaxRepeat(0, Unbounded, <<AnyChar>>), Group(<<Branch(<<<<Lit(<<"i", "d", "e", "n", "t", "i", "f", "y">>)>>, <<Lit(<<"d", "e", "t", "e", "c", "t">>)>>, <<Lit(<<"s", "e", "e">>)>>>>)>>)>>) >>

\* InsightsSkill: its name, trigger rules, tools, priority and confidence rule
InsightsSkill ==
    [name |-> "insights_advisor",
     triggers |-> InsightsSkillTriggers,
     tools |-> <<"get_proactive_insights", "detect_anomalies_realtime", "get_daily_briefing">>,
     priority |-> 25,
     calculate_confidence |-> "BaseSkill"]

\* DealerSkill.triggers: each rule as written and as re parses it
DealerSkillTriggers ==
    << \* \bdealer
       Pattern(<<"\\", "b", "d", "e", "a", "l", "e", "r">>,
        <<AtBoundary, Lit(<<"d", "e", "a", "l", "e", "r">>)>>),
       \* \breseller
       Pattern(<<"\\", "b", "r", "e", "s", "e", "l", "l", "e", "r">>,
        <<AtBoundary, Lit(<<"r", "e", "s", "e", "l", "l", "e", "r">>)>>),
       \* \bdistributor
       Pattern(<<"\\", "b", "d", "i", "s", "t", "r", "i", "b", "u", "t", "o", "r">>,
        <<AtBoundary, Lit(<<"d", "i", "s", "t", "r", "i", "b", "u", "t", "o", "r">>)>>),
       \* \bpartner\b(?!.*product)
       Pattern(<<"\\", "b", "p", "a", "r", "t", "n", "e", "r", "\\", "b", "(", "?", "!", ".", "*", "p", "r", "o", "d", "u", "c", "t", ")">>,
        <<AtBoundary, Lit(<<"p", "a", "r", "t", "n", "e", "r">>), AtBoundary, AssertNot(<<MaxRepeat(0, Unbounded, <<AnyChar>>), Lit(<<"p", "r", "o", "d", "u", "c", "t">>)>>)>>),
       \* (network|coverage|territory|gap)
       Pattern(<<"(", "n", "e", "t", "w", "o", "r", "k", "|", "c", "o", "v", "e", "r", "a", "g", "e", "|", "t", "e", "r", "r", "i", "t", "o", "r", "y", "|", "g", "a", "p", ")">>,
        <<Group(<<Branch(<<<<Lit(<<"n", "e", "t", "w", "o", "r", "k">>)>>, <<Lit(<<"c", "o", "v", "e", "r", "a", "g", "e">>)>>, <<Lit(<<"t", "e", "r", "r", "i", "t", "o", "r", "y">>)>>, <<Lit(<<"g", "a", "p">>)>>>>)>>)>>),
       \* (flagship|authorized|service.center)
       Pattern(<<"(", "f", "l", "a", "g", "s", "h", "i", "p", "|", "a", "u", "t", "h", "o", "r", "i", "z", "e", "d", "|", "s", "e", "r", "v", "i", "c", "e", ".", "c", "e", "n", "t", "e", "r", ")">>,
        <<Group(<<Branch(<<<<Lit(<<"f", "l", "a", "g", "s", "h", "i", "p">>)>>, <<Lit(<<"a", "u", "t", "h", "o", "r", "i", "z", "e", "d">>)>>, <<Lit(<<"s", "e", "r", "v", "i", "c", "e">>), AnyChar, Lit(<<"c", "e", "n", "t", "e", "r">>)>>>>)>>)>>),
       \* (top|best|worst).*(dealer|partner|reseller)
       Pattern(<<"(", "t", "o", "p", "|", "b", "e", "s", "t", "|", "w", "o", "r", "s", "t", ")", ".", "*", "(", "d", "e", "a", "l", "e", "r", "|", "p", "a", "r", "t", "n", "e", "r", "|", "r", "e", "s", "e", "l", "l", "e", "r", ")">>,
        <<Group(<<Branch(<<<<Lit(<<"t", "o", "p">>)>>, <<Lit(<<"b", "e", "s", "t">>)>>, <<Lit(<<"w", "o", "r", "s", "t">>)>>>>)>>), MaxRepeat(0, Unbounded, <<AnyChar>>), Group(<<Branch(<<<<Lit(<<"d", "e", "a", "l", "e", "r">>)>>, <<Lit(<<"p", "a", "r", "t", "n", "e", "r">>)>>, <<Lit(<<"r", "e", "s", "e", "l", "l", "e", "r">>)>>>>)>>)>>),
       \* (dealer|partner).*(performance|ranking|tier)
       Pattern(<<"(", "d", "e", "a", "l", "e", "r", "|", "p", "a", "r", "t", "n", "e", "r", ")", ".", "*", "(", "p", "e", "r", "f", "o", "r", "m", "a", "n", "c", "e", "|", "r", "a", "n", "k", "i", "n", "g", "|", "t", "i", "e", "r", ")">>,
        <<Group(<<Branch(<<<<Lit(<<"d", "e", "a", "l", "e", "r">>)>>, <<Lit(<<"p", "a", "r", "t", "n", "e", "r">>)>>>>)>>), MaxRepeat(0, Unbounded, <<AnyChar>>), Group(<<Branch(<<<<Lit(<<"p", "e", "r", "f", "o", "r", "m", "a", "n", "c", "e">>)>>, <<Lit(<<"r", "a", "n", "k", "i", "n", "g">>)>>, <<Lit(<<"t", "i", "e", "r">>)>>>>)>>)>>) >>

\* DealerSkill: its name, trigger rules, tools, priority and confidence rule
DealerSkill ==
    [name |-> "dealer_analyst",
     triggers |-> DealerSkillTriggers,
     tools |-> <<"query_dealer_data">>,
     priority |-> 22,
     calculate_confidence |-> "BaseSkill"]

\* ForecastSkill.triggers: each rule as written and as re parses it
ForecastSkillTriggers ==
    << \* \bforecast
       Pattern(<<"\\", "b", "f", "o", "r", "e", "c", "a", "s", "t">>,
        <<AtBoundary, Lit(<<"f", "o", "r", "e", "c", "a", "s", "t">>)>>),
       \* \bpredict
       Pattern(<<"\\", "b", "p", "r", "e", "d", "i", "c", "t">>,
        <<AtBoundary, Lit(<<"p", "r", "e", "d", "i", "c", "t">>)>>),
       \* \bprojection
       Pattern(<<"\\", "b", "p", "r", "o", "j", "e", "c", "t", "i", "o", "n">>,
        <<AtBoundary, Lit(<<"p", "r", "o", "j", "e", "c", "t", "i", "o", "n">>)>>),
       \* \bproject\b
       Pattern(<<"\\", "b", "p", "r", "o", "j", "e", "c", "t", "\\", "b">>,
        <<AtBoundary, Lit(<<"p", "r", "o", "j", "e", "c", "t">>), AtBoundary>>),
       \* (next|upcoming|future).*(month|quarter|year)
       Pattern(<<"(", "n", "e", "x", "t", "|", "u", "p", "c", "o", "m", "i", "n", "g", "|", "f", "u", "t", "u", "r", "e", ")", ".", "*", "(", "m", "o", "n", "t", "h", "|", "q", "u", "a", "r", "t", "e", "r", "|", "y", "e", "a", "r", ")">>,
        <<Group(<<Branch(<<<<Lit(<<"n", "e", "x", "t">>)>>, <<Lit(<<"u", "p", "c", "o", "m", "i", "n", "g">>)>>, <<Lit(<<"f", "u", "t", "u", "r", "e">>)>>>>)>>), MaxRepeat(0, Unbounded, <<AnyChar>>), Group(<<Branch(<<<<Lit(<<"m", "o", "n", "t", "h">>)>>, <<Lit(<<"q", "u", "a", "r", "t", "e", "r">>)>>, <<Lit(<<"y", "e", "a", "r">>)>>>>)>>)>>),
       \* (will|expect|should).*(be|hit|reach)
       Pattern(<<"(", "w", "i", "l", "l", "|", "e", "x", "p", "e", "c", "t", "|", "s", "h", "o", "u", "l", "d", ")", ".", "*", "(", "b", "e", "|", "h", "i", "t", "|", "r", "e", "a", "c", "h", ")">>,
        <<Group(<<Branch(<<<<Lit(<<"w", "i", "l", "l">>)>>, <<Lit(<<"e", "x", "p", "e", "c", "t">>)>>, <<Lit(<<"s", "h", "o", "u", "l", "d">>)>>>>)>>), MaxRepeat(0, Unbounded, <<AnyChar>>), Group(<<Branch(<<<<Lit(<<"b", "e">>)>>, <<Lit(<<"h", "i", "t">>)>>, <<Lit(<<"r", "e", "a", "c", "h">>)>>>>)>>)>>),
       \* (what|how much).*(will|expect|likely)
       Pattern(<<"(", "w", "h", "a", "t", "|", "h", "o", "w", " ", "m", "u", "c", "h", ")", ".", "*", "(", "w", "i", "l", "l", "|", "e", "x", "p", "e", "c", "t", "|", "l", "i", "k", "e", "l", "y", ")">>,
        <<Group(<<Branch(<<<<Lit(<<"w", "h", "a", "t">>)>>, <<Lit(<<"h", "o", "w", " ", "m", "u", "c", "h">>)>>>>)>>), MaxRepeat(0, Unbounded, <<AnyChar>>), Group(<<Branch(<<<<Lit(<<"w", "i", "l", "l">>)>>, <<Lit(<<"e", "x", "p", "e", "c", "t">>)>>, <<Lit(<<"l", "i", "k", "e", "l", "y">>)>>>>)>>)>>),
       \* \bseason
       Pattern(<<"\\", "b", "s", "e", "a", "s", "o", "n">>,
        <<AtBoundary, Lit(<<"s", "e", "a", "s", "o", "n">>)>>),
       \* (peak|slow|busy).*(time|period|month)
       Pattern(<<"(", "p", "e", "a", "k", "|", "s", "l", "o", "w", "|", "b", "u", "s", "y", ")", ".", "*", "(", "t", "i", "m", "e", "|", "p", "e", "r", "i", "o", "d", "|", "m", "o", "n", "t", "h", ")">>,
        <<Group(<<Branch(<<<<Lit(<<"p", "e", "a", "k">>)>>, <<Lit(<<"s", "l", "o", "w">>)>>, <<Lit(<<"b", "u", "s", "y">>)>>>>)>>), MaxRepeat(0, Unbounded, <<AnyChar>>), Group(<<Branch(<<<<Lit(<<"t", "i", "m", "e">>)>>, <<Lit(<<"p", "e", "r", "i", "o", "d">>)>>, <<Lit(<<"m", "o", "n", "t", "h">>)>>>>)>>)>>),
       \* (busiest|slowest)
       Pattern(<<"(", "b", "u", "s", "i", "e", "s", "t", "|", "s", "l", "o", "w", "e", "s", "t", ")">>,
        <<Group(<<Branch(<<<<Lit(<<"b", "u", "s", "i", "e", "s", "t">>)>>, <<Lit(<<"s", "l", "o", "w", "e", "s", "t">>)>>>>)>>)>>),
       \* (year.end|annual).*(projection|estimate)
       Pattern(<<"(", "y", "e", "a", "r", ".", "e", "n", "d", "|", "a", "n", "n", "u", "a", "l", ")", ".", "*", "(", "p", "r", "o", "j", "e", "c", "t", "i", "o", "n", "|", "e", "s", "t", "i", "m", "a", "t", "e", ")">>,
        <<Group(<<Branch(<<<<Lit(<<"y", "e", "a", "r">>), AnyChar, Lit(<<"e", "n", "d">>)>>, <<Lit(<<"a", "n", "n", "u", "a", "l">>)>>>>)>>), MaxRepeat(0, Unbounded, <<AnyChar>>), Group(<<Branch(<<<<Lit(<<"p", "r", "o", "j", "e", "c", "t", "i", "o", "n">>)>>, <<Lit(<<"e", "s", "t", "i", "m", "a", "t", "e">>)>>>>)>>)>>),
       \* (run.rate|pace|trajectory)
       Pattern(<<"(", "r", "u", "n", ".", "r", "a", "t", "e", "|", "p", "a", "c", "e", "|", "t", "r", "a", "j", "e", "c", "t", "o", "r", "y", ")">>,
        <<Group(<<Branch(<<<<Lit(<<"r", "u", "n">>), AnyChar, Lit(<<"r", "a", "t", "e">>)>>, <<Lit(<<"p", "a", "c", "e">>)>>, <<Lit(<<"t", "r", "a", "j", "e", "c", "t", "o", "r", "y">>)>>>>)>>)>>),
       \* (on track|ahead|behind)
       Pattern(<<"(", "o", "n", " ", "t", "r", "a", "c", "k", "|", "a", "h", "e", "a", "d", "|", "b", "e", "h", "i", "n", "d", ")">>,
        <<Group(<<Branch(<<<<Lit(<<"o", "n", " ", "t", "r", "a", "c", "k">>)>>, <<Lit(<<"a", "h", "e", "a", "d">>)>>, <<Lit(<<"b", "e", "h", "i", "n", "d">>)>>>>)>>)>>) >>

\* ForecastSkill: its name, trigger rules, tools, priority and confidence rule
ForecastSkill ==
    [name |-> "forecast_analyst",
     triggers |-> ForecastSkillTriggers,
     tools |-> <<"get_sales_forecast">>,
     priority |-> 24,
     calculate_confidence |-> "BaseSkill"]

\* TrendSkill.triggers: each rule as written and as re parses it
TrendSkillTriggers ==
    << \* \byoy\b
       Pattern(<<"\\", "b", "y", "o", "y", "\\", "b">>,
        <<AtBoundary, Lit(<<"y", "o", "y">>), AtBoundary>>),
       \* \by/y\b
       Pattern(<<"\\", "b", "y", "/", "y", "\\", "b">>,
        <<AtBoundary, Lit(<<"y", "/", "y">>), AtBoundary>>),
       \* \bmom\b
       Pattern(<<"\\", "b", "m", "o", "m", "\\", "b">>,
        <<AtBoundary, Lit(<<"m", "o", "m">>), AtBoundary>>),
       \* \bm/m\b
       Pattern(<<"\\", "b", "m", "/", "m", "\\", "b">>,
        <<AtBoundary, Lit(<<"m", "/", "m">>), AtBoundary>>),
       \* year.over.year
       Pattern(<<"y", "e", "a", "r", ".", "o", "v", "e", "r", ".", "y", "e", "a", "r">>,
        <<Lit(<<"y", "e", "a", "r">>), AnyChar, Lit(<<"o", "v", "e", "r">>), AnyChar, Lit(<<"y", "e", "a", "r">>)>>),
       \* month.over.month
       Pattern(<<"m", "o", "n", "t", "h", ".", "o", "v", "e", "r", ".", "m", "o", "n", "t", "h">>,
        <<Lit(<<"m", "o", "n", "t", "h">>), AnyChar, Lit(<<"o", "v", "e", "r">>), AnyChar, Lit(<<"m", "o", "n", "t", "h">>)>>),
       \* (compare|vs|versus).*(last|prior|previous).*(year|month)
       Pattern(<<"(", "c", "o", "m", "p", "a", "r", "e", "|", "v", "s", "|", "v", "e", "r", "s", "u", "s", ")", ".", "*", "(", "l", "a", "s", "t", "|", "p", "r", "i", "o", "r", "|", "p", "r", "e", "v", "i", "o", "u", "s", ")", ".", "*", "(", "y", "e", "a", "r", "|", "m", "o", "n", "t", "h", ")">>,
        <<Group(<<Branch(<<<<Lit(<<"c", "o", "m", "p", "a", "r", "e">>)>>, <<Lit(<<"v", "s">>)>>, <<Lit(<<"v", "e", "r", "s", "u", "s">>)>>>>)>>), MaxRepeat(0, Unbounded, <<AnyChar>>), Group(<<Branch(<<<<Lit(<<"l", "a", "s", "t">>)>>, <<Lit(<<"p", "r", "i", "o", "r">>)>>, <<Lit(<<"p", "r", "e", "v", "i", "o", "u", "s">>)>>>>)>>), MaxRepeat(0, Unbounded, <<AnyChar>>), Group(<<Branch(<<<<Lit(<<"y", "e", "a", "r">>)>>, <<Lit(<<"m", "o", "n", "t", "h">>)>>>>)>>)>>),
       \* (this|current).*(year|month).*(vs|versus|compared)
       Pattern(<<"(", "t", "h", "i", "s", "|", "c", "u", "r", "r", "e", "n", "t", ")", ".", "*", "(", "y", "e", "a", "r", "|", "m", "o", "n", "t", "h", ")", ".", "*", "(", "v", "s", "|", "v", "e", "r", "s", "u", "s", "|", "c", "o", "m", "p", "a", "r", "e", "d", ")">>,
        <<Group(<<Branch(<<<<Lit(<<"t", "h", "i", "s">>)>>, <<Lit(<<"c", "u", "r", "r", "e", "n", "t">>)>>>>)>>), MaxRepeat(0, Unbounded, <<AnyChar>>), Group(<<Branch(<<<<Lit(<<"y", "e", "a", "r">>)>>, <<Lit(<<"m", "o", "n", "t", "h">>)>>>>)>>), MaxRepeat(0, Unbounded, <<AnyChar>>), Group(<<Branch(<<<<Lit(<<"v", "s">>)>>, <<Lit(<<"v", "e", "r", "s", "u", "s">>)>>, <<Lit(<<"c", "o", "m", "p", "a", "r", "e", "d">>)>>>>)>>)>>),
       \* how.*(changed|different|grown|declined)
       Pattern(<<"h", "o", "w", ".", "*", "(", "c", "h", "a", "n", "g", "e", "d", "|", "d", "i", "f", "f", "e", "r", "e", "n", "t", "|", "g", "r", "o", "w", "n", "|", "d", "e", "c", "l", "i", "n", "e", "d", ")">>,
        <<Lit(<<"h", "o", "w">>), MaxRepeat(0, Unbounded, <<AnyChar>>), Group(<<Branch(<<<<Lit(<<"c", "h", "a", "n", "g", "e", "d">>)>>, <<Lit(<<"d", "i", "f", "f", "e", "r", "e", "n", "t">>)>>, <<Lit(<<"g", "r", "o", "w", "n">>)>>, <<Lit(<<"d", "e", "c", "l", "i", "n", "e", "d">>)>>>>)>>)>>),
       \* \bgrowth
       Pattern(<<"\\", "b", "g", "r", "o", "w", "t", "h">>,
        <<AtBoundary, Lit(<<"g", "r", "o", "w", "t", "h">>)>>),
       \* \bgrowing\b
       Pattern(<<"\\", "b", "g", "r", "o", "w", "i", "n", "g", "\\", "b">>,
        <<AtBoundary, Lit(<<"g", "r", "o", "w", "i", "n", "g">>), AtBoundary>>),
       \* \bdecline
       Pattern(<<"\\", "b", "d", "e", "c", "l", "i", "n", "e">>,
        <<AtBoundary, Lit(<<"d", "e", "c", "l", "i", "n", "e">>)>>),
       \* \bdeclining\b
       Pattern(<<"\\", "b", "d", "e", "c", "l", "i", "n", "i", "n", "g", "\\", "b">>,
        <<AtBoundary, Lit(<<"d", "e", "c", "l", "i", "n", "i", "n", "g">>), AtBoundary>>),
       \* (up|down|increase|decrease).+\d+\s*%
       Pattern(<<"(", "u", "p", "|", "d", "o", "w", "n", "|", "i", "n", "c", "r", "e", "a", "s", "e", "|", "d", "e", "c", "r", "e", "a", "s", "e", ")", ".", "+", "\\", "d", "+", "\\", "s", "*", "%">>,
        <<Group(<<Branch(<<<<Lit(<<"u", "p">>)>>, <<Lit(<<"d", "o", "w", "n">>)>>, <<Lit(<<"i", "n", "c", "r", "e", "a", "s", "e">>)>>, <<Lit(<<"d", "e", "c", "r", "e", "a", "s", "e">>)>>>>)>>), MaxRepeat(1, Unbounded, <<AnyChar>>), MaxRepeat(1, Unbounded, <<In({}, {"digit"})>>), MaxRepeat(0, Unbounded, <<In({}, {"space"})>>), Lit(<<"%">>)>>),
       \* \bmomentum
       Pattern(<<"\\", "b", "m", "o", "m", "e", "n", "t", "u", "m">>,
        <<AtBoundary, Lit(<<"m", "o", "m", "e", "n", "t", "u", "m">>)>>),
       \* \btrend
       Pattern(<<"\\", "b", "t", "r", "e", "n", "d">>,
        <<AtBoundary, Lit(<<"t", "r", "e", "n", "d">>)>>),
       \* (accelerat|decelerat|slowing|picking up)
       Pattern(<<"(", "a", "c", "c", "e", "l", "e", "r", "a", "t", "|", "d", "e", "c", "e", "l", "e", "r", "a", "t", "|", "s", "l", "o", "w", "i", "n", "g", "|", "p", "i", "c", "k", "i", "n", "g", " ", "u", "p", ")">>,
        <<Group(<<Branch(<<<<Lit(<<"a", "c", "c", "e", "l", "e", "r", "a", "t">>)>>, <<Lit(<<"d", "e", "c", "e", "l", "e", "r", "a", "t">>)>>, <<Lit(<<"s", "l", "o", "w", "i", "n", "g">>)>>, <<Lit(<<"p", "i", "c", "k", "i", "n", "g", " ", "u", "p">>)>>>>)>>)>>) >>

\* TrendSkill: its name, trigger rules, tools, priority and confidence rule
TrendSkill ==
    [name |-> "trend_analyst",
     triggers |-> TrendSkillTriggers,
     tools |-> <<"analyze_trends">>,
     priority |-> 19,
     calculate_confidence |-> "BaseSkill"]

\* ReplenishmentSkill.triggers: each rule as written and as re parses it
ReplenishmentSkillTriggers ==
    << \* ^replenish\b
       Pattern(<<"^", "r", "e", "p", "l", "e", "n", "i", "s", "h", "\\", "b">>,
        <<AtBeginning, Lit(<<"r", "e", "p", "l", "e", "n", "i", "s", "h">>), AtBoundary>>),
       \* \breplenish\s+product\b
       Pattern(<<"\\", "b", "r", "e", "p", "l", "e", "n", "i", "s", "h", "\\", "s", "+", "p", "r", "o", "d", "u", "c", "t", "\\", "b">>,
        <<AtBoundary, Lit(<<"r", "e", "p", "l", "e", "n", "i", "s", "h">>), MaxRepeat(1, Unbounded, <<In({}, {"space"})>>), Lit(<<"p", "r", "o", "d", "u", "c", "t">>), AtBoundary>>),
       \* \breplenish\s+\w+\s+for\b
       Pattern(<<"\\", "b", "r", "e", "p", "l", "e", "n", "i", "s", "h", "\\", "s", "+", "\\", "w", "+", "\\", "s", "+", "f", "o", "r", "\\", "b">>,
        <<AtBoundary, Lit(<<"r", "e", "p", "l", "e", "n", "i", "s", "h">>), MaxRepeat(1, Unbounded, <<In({}, {"space"})>>), MaxRepeat(1, Unbounded, <<In({}, {"word"})>>), MaxRepeat(1, Unbounded, <<In({}, {"space"})>>), Lit(<<"f", "o", "r">>), AtBoundary>>),
       \* (yes|yeah|sure|ok|okay|confirm|confirmed|proceed|go ahead|do it|please do).*(replenish|restock|shipment|request|resupply|ship)
       Pattern(<<"(", "y", "e", "s", "|", "y", "e", "a", "h", "|", "s", "u", "r", "e", "|", "o", "k", "|", "o", "k", "a", "y", "|", "c", "o", "n", "f", "i", "r", "m", "|", "c", "o", "n", "f", "i", "r", "m", "e", "d", "|", "p", "r", "o", "c", "e", "e", "d", "|", "g", "o", " ", "a", "h", "e", "a", "d", "|", "d", "o", " ", "i", "t", "|", "p", "l", "e", "a", "s", "e", " ", "d", "o", ")", ".", "*", "(", "r", "e", "p", "l", "e", "n", "i", "s", "h", "|", "r", "e", "s", "t", "o", "c", "k", "|", "s", "h", "i", "p", "m", "e", "n", "t", "|", "r", "e", "q", "u", "e", "s", "t", "|", "r", "e", "s", "u", "p", "p", "l", "y", "|", "s", "h", "i", "p", ")">>,
        <<Group(<<Branch(<<<<Lit(<<"y", "e", "s">>)>>, <<Lit(<<"y", "e", "a", "h">>)>>, <<Lit(<<"s", "u", "r", "e">>)>>, <<Lit(<<"o", "k">>)>>, <<Lit(<<"o", "k", "a", "y">>)>>, <<Lit(<<"c", "o", "n", "f", "i", "r", "m">>)>>, <<Lit(<<"c", "o", "n", "f", "i", "r", "m", "e", "d">>)>>, <<Lit(<<"p", "r", "o", "c", "e", "e", "d">>)>>, <<Lit(<<"g", "o", " ", "a", "h", "e", "a", "d">>)>>, <<Lit(<<"d", "o", " ", "i", "t">>)>>, <<Lit(<<"p", "l", "e", "a", "s", "e", " ", "d", "o">>)>>>>)>>), MaxRepeat(0, Unbounded, <<AnyChar>>), Group(<<Branch(<<<<Lit(<<"r", "e", "p", "l", "e", "n", "i", "s", "h">>)>>, <<Lit(<<"r", "e", "s", "t", "o", "c", "k">>)>>, <<Lit(<<"s", "h", "i", "p", "m", "e", "n", "t">>)>>, <<Lit(<<"r", "e", "q", "u", "e", "s", "t">>)>>, <<Lit(<<"r", "e", "s", "u", "p", "p", "l", "y">>)>>, <<Lit(<<"s", "h", "i", "p">>)>>>>)>>)>>),
       \* (yes|yeah|sure|ok|okay|confirm|confirmed|proceed|go ahead|do it|please do).*(create|initiate|submit|make).*(request|order)
       Pattern(<<"(", "y", "e", "s", "|", "y", "e", "a", "h", "|", "s", "u", "r", "e", "|", "o", "k", "|", "o", "k", "a", "y", "|", "c", "o", "n", "f", "i", "r", "m", "|", "c", "o", "n", "f", "i", "r", "m", "e", "d", "|", "p", "r", "o", "c", "e", "e", "d", "|", "g", "o", " ", "a", "h", "e", "a", "d", "|", "d", "o", " ", "i", "t", "|", "p", "l", "e", "a", "s", "e", " ", "d", "o", ")", ".", "*", "(", "c", "r", "e", "a", "t", "e", "|", "i", "n", "i", "t", "i", "a", "t", "e", "|", "s", "u", "b", "m", "i", "t", "|", "m", "a", "k", "e", ")", ".", "*", "(", "r", "e", "q", "u", "e", "s", "t", "|", "o", "r", "d", "e", "r", ")">>,
        <<Group(<<Branch(<<<<Lit(<<"y", "e", "s">>)>>, <<Lit(<<"y", "e", "a", "h">>)>>, <<Lit(<<"s", "u", "r", "e">>)>>, <<Lit(<<"o", "k">>)>>, <<Lit(<<"o", "k", "a", "y">>)>>, <<Lit(<<"c", "o", "n", "f", "i", "r", "m">>)>>, <<Lit(<<"c", "o", "n", "f", "i", "r", "m", "e", "d">>)>>, <<Lit(<<"p", "r", "o", "c", "e", "e", "d">>)>>, <<Lit(<<"g", "o", " ", "a", "h", "e", "a", "d">>)>>, <<Lit(<<"d", "o", " ", "i", "t">>)>>, <<Lit(<<"p", "l", "e", "a", "s", "e", " ", "d", "o">>)>>>>)>>), MaxRepeat(0, Unbounded, <<AnyChar>>), Group(<<Branch(<<<<Lit(<<"c", "r", "e", "a", "t", "e">>)>>, <<Lit(<<"i", "n", "i", "t", "i", "a", "t", "e">>)>>, <<Lit(<<"s", "u", "b", "m", "i", "t">>)>>, <<Lit(<<"m", "a", "k", "e">>)>>>>)>>), MaxRepeat(0, Unbounded, <<AnyChar>>), Group(<<Branch(<<<<Lit(<<"r", "e", "q", "u", "e", "s", "t">>)>>, <<Lit(<<"o", "r", "d", "e", "r">>)>>>>)>>)>>),
       \* (place|initiate|create|submit|make).*(expedited|urgent|emergency)?.*(shipment|request|replenish|restock|order)
       Pattern(<<"(", "p", "l", "a", "c", "e", "|", "i", "n", "i", "t", "i", "a", "t", "e", "|", "c", "r", "e", "a", "t", "e", "|", "s", "u", "b", "m", "i", "t", "|", "m", "a", "k", "e", ")", ".", "*", "(", "e", "x", "p", "e", "d", "i", "t", "e", "d", "|", "u", "r", "g", "e", "n", "t", "|", "e", "m", "e", "r", "g", "e", "n", "c", "y", ")", "?", ".", "*", "(", "s", "h", "i", "p", "m", "e", "n", "t", "|", "r", "e", "q", "u", "e", "s", "t", "|", "r", "e", "p", "l", "e", "n", "i", "s", "h", "|", "r", "e", "s", "t", "o", "c", "k", "|", "o", "r", "d", "e", "r", ")">>,
        <<Group(<<Branch(<<<<Lit(<<"p", "l", "a", "c", "e">>)>>, <<Lit(<<"i", "n", "i", "t", "i", "a", "t", "e">>)>>, <<Lit(<<"c", "r", "e", "a", "t", "e">>)>>, <<Lit(<<"s", "u", "b", "m", "i", "t">>)>>, <<Lit(<<"m", "a", "k", "e">>)>>>>)>>), MaxRepeat(0, Unbounded, <<AnyChar>>), MaxRepeat(0, 1, <<Group(<<Branch(<<<<Lit(<<"e", "x", "p", "e", "d", "i", "t", "e", "d">>)>>, <<Lit(<<"u", "r", "g", "e", "n", "t">>)>>, <<Lit(<<"e", "m", "e", "r", "g", "e", "n", "c", "y">>)>>>>)>>)>>), MaxRepeat(0, Unbounded, <<AnyChar>>), Group(<<Branch(<<<<Lit(<<"s", "h", "i", "p", "m", "e", "n", "t">>)>>, <<Lit(<<"r", "e", "q", "u", "e", "s", "t">>)>>, <<Lit(<<"r", "e", "p", "l", "e", "n", "i", "s", "h">>)>>, <<Lit(<<"r", "e", "s", "t", "o", "c", "k">>)>>, <<Lit(<<"o", "r", "d", "e", "r">>)>>>>)>>)>>),
       \* expedited.*(replenish|order|shipment)
       Pattern(<<"e", "x", "p", "e", "d", "i", "t", "e", "d", ".", "*", "(", "r", "e", "p", "l", "e", "n", "i", "s", "h", "|", "o", "r", "d", "e", "r", "|", "s", "h", "i", "p", "m", "e", "n", "t", ")">>,
        <<Lit(<<"e", "x", "p", "e", "d", "i", "t", "e", "d">>), MaxRepeat(0, Unbounded, <<AnyChar>>), Group(<<Branch(<<<<Lit(<<"r", "e", "p", "l", "e", "n", "i", "s", "h">>)>>, <<Lit(<<"o", "r", "d", "e", "r">>)>>, <<Lit(<<"s", "h", "i", "p", "m", "e", "n", "t">>)>>>>)>>)>>),
       \* (replenish|restock|resupply).*(inventory|stock|product|order)
       Pattern(<<"(", "r", "e", "p", "l", "e", "n", "i", "s", "h", "|", "r", "e", "s", "t", "o", "c", "k", "|", "r", "e", "s", "u", "p", "p", "l", "y", ")", ".", "*", "(", "i", "n", "v", "e", "n", "t", "o", "r", "y", "|", "s", "t", "o", "c", "k", "|", "p", "r", "o", "d", "u", "c", "t", "|", "o", "r", "d", "e", "r", ")">>,
        <<Group(<<Lit(<<"r", "e">>), Branch(<<<<Lit(<<"p", "l", "e", "n", "i", "s", "h">>)>>, <<Lit(<<"s", "t", "o", "c", "k">>)>>, <<Lit(<<"s", "u", "p", "p", "l", "y">>)>>>>)>>), MaxRepeat(0, Unbounded, <<AnyChar>>), Group(<<Branch(<<<<Lit(<<"i", "n", "v", "e", "n", "t", "o", "r", "y">>)>>, <<Lit(<<"s", "t", "o", "c", "k">>)>>, <<Lit(<<"p", "r", "o", "d", "u", "c", "t">>)>>, <<Lit(<<"o", "r", "d", "e", "r">>)>>>>)>>)>>),
       \* (send|ship|transfer).*(product|inventory|stock|units).*to
       Pattern(<<"(", "s", "e", "n", "d", "|", "s", "h", "i", "p", "|", "t", "r", "a", "n", "s", "f", "e", "r", ")", ".", "*", "(", "p", "r", "o", "d", "u", "c", "t", "|", "i", "n", "v", "e", "n", "t", "o", "r", "y", "|", "s", "t", "o", "c", "k", "|", "u", "n", "i", "t", "s", ")", ".", "*", "t", "o">>,
        <<Group(<<Branch(<<<<Lit(<<"s", "e", "n", "d">>)>>, <<Lit(<<"s", "h", "i", "p">>)>>, <<Lit(<<"t", "r", "a", "n", "s", "f", "e", "r">>)>>>>)>>), MaxRepeat(0, Unbounded, <<AnyChar>>), Group(<<Branch(<<<<Lit(<<"p", "r", "o", "d", "u", "c", "t">>)>>, <<Lit(<<"i", "n", "v", "e", "n", "t", "o", "r", "y">>)>>, <<Lit(<<"s", "t", "o", "c", "k">>)>>, <<Lit(<<"u", "n", "i", "t", "s">>)>>>>)>>), MaxRepeat(0, Unbounded, <<AnyChar>>), Lit(<<"t", "o">>)>>),
       \* (check|show|list|view).*(shipment|replenishment).*(request|order|status)
       Pattern(<<"(", "c", "h", "e", "c", "k", "|", "s", "h", "o", "w", "|", "l", "i", "s", "t", "|", "v", "i", "e", "w", ")", ".", "*", "(", "s", "h", "i", "p", "m", "e", "n", "t", "|", "r", "e", "p", "l", "e", "n", "i", "s", "h", "m", "e", "n", "t", ")", ".", "*", "(", "r", "e", "q", "u", "e", "s", "t", "|", "o", "r", "d", "e", "r", "|", "s", "t", "a", "t", "u", "s", ")">>,
        <<Group(<<Branch(<<<<Lit(<<"c", "h", "e", "c", "k">>)>>, <<Lit(<<"s", "h", "o", "w">>)>>, <<Lit(<<"l", "i", "s", "t">>)>>, <<Lit(<<"v", "i", "e", "w">>)>>>>)>>), MaxRepeat(0, Unbounded, <<AnyChar>>), Group(<<Branch(<<<<Lit(<<"s", "h", "i", "p", "m", "e", "n", "t">>)>>, <<Lit(<<"r", "e", "p", "l", "e", "n", "i", "s", "h", "m", "e", "n", "t">>)>>>>)>>), MaxRepeat(0, Unbounded, <<AnyChar>>), Group(<<Branch(<<<<Lit(<<"r", "e", "q", "u", "e", "s", "t">>)>>, <<Lit(<<"o", "r", "d", "e", "r">>)>>, <<Lit(<<"s", "t", "a", "t", "u", "s">>)>>>>)>>)>>),
       \* pending.*(shipment|request|order)
       Pattern(<<"p", "e", "n", "d", "i", "n", "g", ".", "*", "(", "s", "h", "i", "p", "m", "e", "n", "t", "|", "r", "e", "q", "u", "e", "s", "t", "|", "o", "r", "d", "e", "r", ")">>,
        <<Lit(<<"p", "e", "n", "d", "i", "n", "g">>), MaxRepeat(0, Unbounded, <<AnyChar>>), Group(<<Branch(<<<<Lit(<<"s", "h", "i", "p", "m", "e", "n", "t">>)>>, <<Lit(<<"r", "e", "q", "u", "e", "s", "t">>)>>, <<Lit(<<"o", "r", "d", "e", "r">>)>>>>)>>)>>),
       \* request.*shipment
       Pattern(<<"r", "e", "q", "u", "e", "s", "t", ".", "*", "s", "h", "i", "p", "m", "e", "n", "t">>,
        <<Lit(<<"r", "e", "q", "u", "e", "s", "t">>), MaxRepeat(0, Unbounded, <<AnyChar>>), Lit(<<"s", "h", "i", "p", "m", "e", "n", "t">>)>>),
       \* shipment.*request
       Pattern(<<"s", "h", "i", "p", "m", "e", "n", "t", ".", "*", "r", "e", "q", "u", "e", "s", "t">>,
        <<Lit(<<"s", "h", "i", "p", "m", "e", "n", "t">>), MaxRepeat(0, Unbounded, <<AnyChar>>), Lit(<<"r", "e", "q", "u", "e", "s", "t">>)>>),
       \* replenishment.*(request|order)
       Pattern(<<"r", "e", "p", "l", "e", "n", "i", "s", "h", "m", "e", "n", "t", ".", "*", "(", "r", "e", "q", "u", "e", "s", "t", "|", "o", "r", "d", "e", "r", ")">>,
        <<Lit(<<"r", "e", "p", "l", "e", "n", "i", "s", "h", "m", "e", "n", "t">>), MaxRepeat(0, Unbounded, <<AnyChar>>), Group(<<Branch(<<<<Lit(<<"r", "e", "q", "u", "e", "s", "t">>)>>, <<Lit(<<"o", "r", "d", "e", "r">>)>>>>)>>)>>),
       \* restock.*order
       Pattern(<<"r", "e", "s", "t", "o", "c", "k", ".", "*", "o", "r", "d", "e", "r">>,
        <<Lit(<<"r", "e", "s", "t", "o", "c", "k">>), MaxRepeat(0, Unbounded, <<AnyChar>>), Lit(<<"o", "r", "d", "e", "r">>)>>),
       \* (replenish|restock|order).*(for|product)
       Pattern(<<"(", "r", "e", "p", "l", "e", "n", "i", "s", "h", "|", "r", "e", "s", "t", "o", "c", "k", "|", "o", "r", "d", "e", "r", ")", ".", "*", "(", "f", "o", "r", "|", "p", "r", "o", "d", "u", "c", "t", ")">>,
        <<Group(<<Branch(<<<<Lit(<<"r", "e", "p", "l", "e", "n", "i", "s", "h">>)>>, <<Lit(<<"r", "e", "s", "t", "o", "c", "k">>)>>, <<Lit(<<"o", "r", "d", "e", "r">>)>>>>)>>), MaxRepeat(0, Unbounded, <<AnyChar>>), Group(<<Branch(<<<<Lit(<<"f", "o", "r">>)>>, <<Lit(<<"p", "r", "o", "d", "u", "c", "t">>)>>>>)>>)>>) >>

\* ReplenishmentSkill: its name, trigger rules, tools, priority and confidence rule
ReplenishmentSkill ==
    [name |-> "replenishment_coordinator",
     triggers |-> ReplenishmentSkillTriggers,
     tools |-> <<"create_shipment_request", "get_shipment_requests", "query_inventory_data">>,
     priority |-> 30,
     calculate_confidence |-> "ReplenishmentSkill"]

\* r'\b(replenish|restock|resupply)\b'
ReplenishKeyword ==
    Pattern(<<"\\", "b", "(", "r", "e", "p", "l", "e", "n", "i", "s", "h", "|", "r", "e", "s", "t", "o", "c", "k", "|", "r", "e", "s", "u", "p", "p", "l", "y", ")", "\\", "b">>,
        <<AtBoundary, Group(<<Lit(<<"r", "e">>), Branch(<<<<Lit(<<"p", "l", "e", "n", "i", "s", "h">>)>>, <<Lit(<<"s", "t", "o", "c", "k">>)>>, <<Lit(<<"s", "u", "p", "p", "l", "y">>)>>>>)>>), AtBoundary>>)

\* r'(create|place|initiate|submit|make).*(shipment|order|request)'
CreationRequest ==
    Pattern(<<"(", "c", "r", "e", "a", "t", "e", "|", "p", "l", "a", "c", "e", "|", "i", "n", "i", "t", "i", "a", "t", "e", "|", "s", "u", "b", "m", "i", "t", "|", "m", "a", "k", "e", ")", ".", "*", "(", "s", "h", "i", "p", "m", "e", "n", "t", "|", "o", "r", "d", "e", "r", "|", "r", "e", "q", "u", "e", "s", "t", ")">>,
        <<Group(<<Branch(<<<<Lit(<<"c", "r", "e", "a", "t", "e">>)>>, <<Lit(<<"p", "l", "a", "c", "e">>)>>, <<Lit(<<"i", "n", "i", "t", "i", "a", "t", "e">>)>>, <<Lit(<<"s", "u", "b", "m", "i", "t">>)>>, <<Lit(<<"m", "a", "k", "e">>)>>>>)>>), MaxRepeat(0, Unbounded, <<AnyChar>>), Group(<<Branch(<<<<Lit(<<"s", "h", "i", "p", "m", "e", "n", "t">>)>>, <<Lit(<<"o", "r", "d", "e", "r">>)>>, <<Lit(<<"r", "e", "q", "u", "e", "s", "t">>)>>>>)>>)>>)

\* r'(yes|ok|confirm|proceed|go ahead).*(replenish|restock|ship)'
ConfirmationInContext ==
    Pattern(<<"(", "y", "e", "s", "|", "o", "k", "|", "c", "o", "n", "f", "i", "r", "m", "|", "p", "r", "o", "c", "e", "e", "d", "|", "g", "o", " ", "a", "h", "e", "a", "d", ")", ".", "*", "(", "r", "e", "p", "l", "e", "n", "i", "s", "h", "|", "r", "e", "s", "t", "o", "c", "k", "|", "s", "h", "i", "p", ")">>,
        <<Group(<<Branch(<<<<Lit(<<"y", "e", "s">>)>>, <<Lit(<<"o", "k">>)>>, <<Lit(<<"c", "o", "n", "f", "i", "r", "m">>)>>, <<Lit(<<"p", "r", "o", "c", "e", "e", "d">>)>>, <<Lit(<<"g", "o", " ", "a", "h", "e", "a", "d">>)>>>>)>>), MaxRepeat(0, Unbounded, <<AnyChar>>), Group(<<Branch(<<<<Lit(<<"r", "e", "p", "l", "e", "n", "i", "s", "h">>)>>, <<Lit(<<"r", "e", "s", "t", "o", "c", "k">>)>>, <<Lit(<<"s", "h", "i", "p">>)>>>>)>>)>>)

\* the queries routed
RouterQueries ==
    { \* "yes, replenish the chainsaws for Northeast"
      <<"y", "e", "s", ",", " ", "r", "e", "p", "l", "e", "n", "i", "s", "h", " ", "t", "h", "e", " ", "c", "h", "a", "i", "n", "s", "a", "w", "s", " ", "f", "o", "r", " ", "N", "o", "r", "t", "h", "e", "a", "s", "t">>,
      \* "what should i buy to restock for us"
      <<"w", "h", "a", "t", " ", "s", "h", "o", "u", "l", "d", " ", "i", " ", "b", "u", "y", " ", "t", "o", " ", "r", "e", "s", "t", "o", "c", "k", " ", "f", "o", "r", " ", "u", "s">>,
      \* "hello"
      <<"h", "e", "l", "l", "o">>,
      \* "thanks"
      <<"t", "h", "a", "n", "k", "s">>,
      \* "restock the chainsaw"
      <<"r", "e", "s", "t", "o", "c", "k", " ", "t", "h", "e", " ", "c", "h", "a", "i", "n", "s", "a", "w">>,
      \* "sales forecast"
      <<"s", "a", "l", "e", "s", " ", "f", "o", "r", "e", "c", "a", "s", "t">>,
      \* "which dealer is best for sales"
      <<"w", "h", "i", "c", "h", " ", "d", "e", "a", "l", "e", "r", " ", "i", "s", " ", "b", "e", "s", "t", " ", "f", "o", "r", " ", "s", "a", "l", "e", "s">>,
      \* "YoY revenue"
      <<"Y", "o", "Y", " ", "r", "e", "v", "e", "n", "u", "e">>,
      \* "place order for ms 500"
      <<"p", "l", "a", "c", "e", " ", "o", "r", "d", "e", "r", " ", "f", "o", "r", " ", "m", "s", " ", "5", "0", "0">>,
      \* "which chainsaw should i buy"
      <<"w", "h", "i", "c", "h", " ", "c", "h", "a", "i", "n", "s", "a", "w", " ", "s", "h", "o", "u", "l", "d", " ", "i", " ", "b", "u", "y">> }


\* ReplenishmentSkill._calculate_confidence(pattern, query)
ReplenishmentCalculateConfidence(pattern, query) ==
    LET query_lower == StrLower(query)
    IN  IF Search(ReplenishKeyword, query_lower) THEN KeywordConfidence
        ELSE IF Search(CreationRequest, query_lower) THEN RequestConfidence
        ELSE IF Search(ConfirmationInContext, query_lower) THEN RequestConfidence
        ELSE DefaultReplenishmentConfidence

\* self._calculate_confidence(pattern, query_lower), by the class of the skill
CalculateConfidence(skill, pattern, query) ==
    IF skill.calculate_confidence = "ReplenishmentSkill"
    THEN ReplenishmentCalculateConfidence(pattern, query)
    ELSE BaseCalculateConfidence(pattern, query)

----------------------------------------------------------------------------
(* Skills: matching, and the router *)

\* the skills SkillRouter._register_default_skills registers, in its order
DefaultSkills ==
    <<ProductSkill, SalesSkill, InventorySkill, InsightsSkill,
      DealerSkill, ForecastSkill, TrendSkill, ReplenishmentSkill>>

SkillNames == { DefaultSkills[i].name : i \in 1..Len(DefaultSkills) }

\* priority of BaseSkill: what a skill has that does not override the property
BasePriority == 10

\* a skill written against BaseSkill that answers thanks, priority and confidence inherited
GreeterSkill(name) ==
    [name |-> name,
     triggers |-> << Pattern(<<"t", "h", "a", "n", "k", "s">>, <<Lit(<<"t", "h", "a", "n", "k", "s">>)>>) >>,
     tools |-> <<>>,
     priority |-> BasePriority,
     calculate_confidence |-> "BaseSkill"]

\* the skills a caller of register() brings: two of one priority answering one query
CallerSkills == << GreeterSkill("greeter_one"), GreeterSkill("greeter_two") >>

\* every skill register() is called with
KnownSkills == DefaultSkills \o CallerSkills

\* the names register() and unregister() are called with
KnownNames == { KnownSkills[i].name : i \in 1..Len(KnownSkills) }

\* the skill object registered under a name
SkillOf(name) ==
    KnownSkills[CHOOSE i \in 1..Len(KnownSkills) : KnownSkills[i].name = name]

\* Optional[SkillMatch]: NoMatch is None, <<m>> is the match m
NoMatch == <<>>

\* Optional[str] of matched_pattern: NoPattern is None, <<p>> is the rule p
NoPattern == <<>>

\* SkillMatch(skill_name, confidence, matched_pattern, tools_available)
SkillMatch(skill_name, confidence, matched_pattern, tools_available) ==
    [skill_name |-> skill_name, confidence |-> confidence,
     matched_pattern |-> matched_pattern, tools_available |-> tools_available]

\* FirstTrigger going on to the last rule from i on that re.search finds
FirstTrigger_Latest(triggers, query_lower, i) ==
    LET found == { j \in i..Len(triggers) : SearchIgnoreCase(triggers[j], query_lower) }
    IN  IF found = {} THEN 0
        ELSE CHOOSE j \in found : \A k \in found : k <= j

RECURSIVE FirstTrigger(_, _, _)
\* the index of the first rule from i on that re.search finds in the query, 0 if none
FirstTrigger(triggers, query_lower, i) ==
    IF i > Len(triggers) THEN 0
    ELSE IF SearchIgnoreCase(triggers[i], query_lower) THEN i
    ELSE FirstTrigger(triggers, query_lower, i + 1)

\* the tools a match carries: MatchTools leaving them out
MatchTools_Empty(skill) == <<>>

\* tools_available=self.tools
MatchTools(skill) == skill.tools

\* BaseSkill.matches(query)
Matches(skill, query) ==
    LET query_lower == StrLower(query)
        i == FirstTrigger(skill.triggers, query_lower, 1)
    IN  IF i = 0 THEN NoMatch
        ELSE << SkillMatch(skill.name,
                           CalculateConfidence(skill, skill.triggers[i].src, query_lower),
                           <<skill.triggers[i].src>>,
                           MatchTools(skill)) >>

\* skill.matches(query) for the default skills and the queries routed, computed once
MatchesOf == [name \in KnownNames |-> [query \in RouterQueries |-> Matches(SkillOf(name), query)]]

\* a < b on tuples of numbers of one length, the first components deciding
TupleLess(a, b) ==
    \E i \in 1..Len(a) :
        /\ a[i] < b[i]
        /\ \A j \in 1..(i - 1) : a[j] = b[j]

RECURSIVE InsertReverse(_, _)
\* x put into s, which is in descending order of key, behind the elements
\* whose key is not less than its own
InsertReverse(s, x) ==
    IF s = <<>> THEN <<x>>
    ELSE IF TupleLess(Head(s).key, x.key) THEN <<x>> \o s
    ELSE <<Head(s)>> \o InsertReverse(Tail(s), x)

RECURSIVE SortReverseInto(_, _)
SortReverseInto(s, sorted) ==
    IF s = <<>> THEN sorted
    ELSE Once(InsertReverse(sorted, Head(s)),
              LAMBDA longer : SortReverseInto(Tail(s), longer))

\* sorted(items, key=..., reverse=True) and list.sort(key=..., reverse=True):
\* descending by key, elements of equal key in their original order
SortedReverse(s) == SortReverseInto(s, <<>>)

\* the key of RoutingKey with priority before confidence
RoutingKey_PriorityFirst(confidence, priority) == <<priority, confidence>>

\* key=lambda m: (m.confidence, self._skills[m.skill_name].priority)
RoutingKey(confidence, priority) == <<confidence, priority>>

\* SkillsByPriority with skills of one priority in the reverse of their registration
SkillsByPriority_LatestFirst(skills) ==
    LET keyed == [i \in 1..Len(skills) |->
                     [key |-> <<SkillOf(skills[Len(skills) + 1 - i]).priority>>,
                      item |-> skills[Len(skills) + 1 - i]]]
    IN  Once(SortedReverse(keyed),
             LAMBDA sorted : [i \in 1..Len(sorted) |-> sorted[i].item])

\* SkillRouter.skills: the registered skills by priority, highest first
SkillsByPriority(skills) ==
    LET keyed == [i \in 1..Len(skills) |->
                     [key |-> <<SkillOf(skills[i]).priority>>, item |-> skills[i]]]
    IN  Once(SortedReverse(keyed),
             LAMBDA sorted : [i \in 1..Len(sorted) |-> sorted[i].item])

RECURSIVE CollectMatches(_, _)
\* the loop of route: the matches of the skills, in the order the skills are tried
CollectMatches(names, query) ==
    IF names = <<>> THEN <<>>
    ELSE MatchesOf[Head(names)][query] \o CollectMatches(Tail(names), query)

\* SkillRouter.route(query) on the registry skills
RouteResult(skills, query) ==
    Once(SkillsByPriority(skills),
         LAMBDA by_priority :
            Once(CollectMatches(by_priority, query),
                 LAMBDA matches :
                    LET keyed == [i \in 1..Len(matches) |->
                                     [key |-> RoutingKey(matches[i].confidence,
                                                  SkillOf(matches[i].skill_name).priority),
                                      item |-> matches[i]]]
                    IN  IF matches = <<>> THEN NoMatch
                        ELSE <<SortedReverse(keyed)[1].item>>))

\* confidence=0.3
FallbackConfidence == 300

\* the skill route_with_fallback falls back on unless told another
DefaultFallback == "sales_analyst"

\* RouteOrFallback returning None when the fallback skill is not registered
RouteOrFallback_NeedsSkill(skills, query, fallback_skill) ==
    LET match == RouteResult(skills, query)
    IN  IF match # NoMatch THEN match
        ELSE IF \E i \in 1..Len(skills) : skills[i] = fallback_skill
        THEN << SkillMatch(fallback_skill, FallbackConfidence, NoPattern,
                           SkillOf(fallback_skill).tools) >>
        ELSE NoMatch

\* SkillRouter.route_with_fallback(query, fallback_skill)
RouteOrFallback(skills, query, fallback_skill) ==
    LET match == RouteResult(skills, query)
    IN  IF match # NoMatch THEN match
        ELSE << SkillMatch(fallback_skill, FallbackConfidence, NoPattern,
                           IF \E i \in 1..Len(skills) : skills[i] = fallback_skill
                           THEN SkillOf(fallback_skill).tools ELSE <<>>) >>

\* register and unregister calls per behaviour
MaxRegistryChanges == 2

\* the names route_with_fallback is given as fallback
FallbackNames == { DefaultFallback, "dealer_analyst" }

\* a completed router call: its arguments and what it returned
RouterCall(op, query, name, ret) == [op |-> op, query |-> query, name |-> name, ret |-> ret]

\* SkillRouter.register(skill), skill being the skill of that name
Register(name) ==
    /\ r_changes < MaxRegistryChanges
    /\ r_skills' = IF \E i \in 1..Len(r_skills) : r_skills[i] = name
                   THEN r_skills ELSE Append(r_skills, name)
    /\ r_last' = RouterCall("register", <<>>, name, NoMatch)
    /\ r_changes' = r_changes + 1
    /\ UNCHANGED beside_router

\* SkillRouter.unregister(skill_name)
Unregister(skill_name) ==
    /\ r_changes < MaxRegistryChanges
    /\ r_skills' = WithoutElem(r_skills, skill_name)
    /\ r_last' = RouterCall("unregister", <<>>, skill_name, NoMatch)
    /\ r_changes' = r_changes + 1
    /\ UNCHANGED beside_router

\* SkillRouter.route(query)
Route(query) ==
    /\ r_last' = RouterCall("route", query, None, RouteResult(r_skills, query))
    /\ UNCHANGED <<r_skills, r_changes, beside_router>>

\* SkillRouter.route_with_fallback(query, fallback_skill)
RouteWithFallback(query, fallback_skill) ==
    /\ r_last' = RouterCall("route_with_fallback", query, fallback_skill,
                            RouteOrFallback(r_skills, query, fallback_skill))
    /\ UNCHANGED <<r_skills, r_changes, beside_router>>

\* SkillRouter.__init__(): the default skills registered
RouterInit ==
    /\ r_skills = [i \in 1..Len(DefaultSkills) |-> DefaultSkills[i].name]
    /\ r_last = RouterCall("init", <<>>, None, NoMatch)
    /\ r_changes = 0

----------------------------------------------------------------------------
(* ConversationHistoryManager: messages and text *)

\* Optional[str] of a message's content: NoContent is None, <<s>> is the string s
NoContent == <<>>

\* a message of the transcript; a key the dict does not have is the value
\* get() defaults to: no tool_calls, tool_call_id ""
Message(role, content, tool_calls, tool_call_id) ==
    [role |-> role, content |-> content, tool_calls |-> tool_calls,
     tool_call_id |-> tool_call_id]

\* message.get("content", "") or "": the string, "" for None
ContentOf(message) == IF message.content = NoContent THEN <<>> ELSE message.content[1]

Max(a, b) == IF a >= b THEN a ELSE b

\* s[:k]
SliceTo(s, k) ==
    IF k >= 0 THEN SubSeq(s, 1, Min(k, Len(s)))
    ELSE SubSeq(s, 1, Max(Len(s) + k, 0))

\* s[k:]
SliceFrom(s, k) ==
    IF k >= 0 THEN SubSeq(s, Min(k, Len(s)) + 1, Len(s))
    ELSE SubSeq(s, Max(Len(s) + k, 0) + 1, Len(s))

\* characters per token in _truncate_content
CharsPerToken == 4

\* the characters _truncate_content leaves room for the marker
MarkerRoom == 20

\* "... [truncated]"
TruncatedMarker == <<".", ".", ".", " ", "[", "t", "r", "u", "n", "c", "a", "t", "e", "d", "]">>

\* "User asked: "
UserAsked == <<"U", "s", "e", "r", " ", "a", "s", "k", "e", "d", ":", " ">>

\* "..."
Ellipsis == <<".", ".", ".">>

\* "Answered: "
Answered == <<"A", "n", "s", "w", "e", "r", "e", "d", ":", " ">>

\* " | "
TopicSeparator == <<" ", "|", " ">>

\* "Earlier conversation about STIHL analytics"
GenericSummary == <<"E", "a", "r", "l", "i", "e", "r", " ", "c", "o", "n", "v", "e", "r", "s", "a", "t", "i", "o", "n", " ", "a", "b", "o", "u", "t", " ", "S", "T", "I", "H", "L", " ", "a", "n", "a", "l", "y", "t", "i", "c", "s">>

\* "[Previous conversation summary: "
SummaryOpening == <<"[", "P", "r", "e", "v", "i", "o", "u", "s", " ", "c", "o", "n", "v", "e", "r", "s", "a", "t", "i", "o", "n", " ", "s", "u", "m", "m", "a", "r", "y", ":", " ">>

\* "]"
SummaryClosing == <<"]">>

\* TruncateContent cutting at max_chars and adding no marker
TruncateContent_NoMarker(content, max_tokens) ==
    SliceTo(content, max_tokens * CharsPerToken)

\* ConversationHistoryManager._truncate_content(content, max_tokens)
TruncateContent(content, max_tokens) ==
    LET max_chars == max_tokens * CharsPerToken
    IN  IF Len(content) <= max_chars THEN content
        ELSE SliceTo(content, max_chars - MarkerRoom) \o TruncatedMarker

\* the budgets of _summarize_message for a user message and for an answer, in tokens
UserSummaryTokens == 200

AssistantSummaryTokens == 300

\* ConversationHistoryManager._count_turns(history)
CountTurns(history) ==
    Cardinality({ i \in 1..Len(history) : history[i].role = "user" })

\* the tool message optimize and _truncate_tool_results build from a tool message
TruncatedToolMessage(message, config) ==
    Message("tool", <<TruncateContent(ContentOf(message), config.max_tool_result_tokens)>>,
            <<>>, message.tool_call_id)

\* TruncateToolResults handing the transcript back as it is
TruncateToolResults_Untouched(history, config) == history

\* ConversationHistoryManager._truncate_tool_results(history)
TruncateToolResults(history, config) ==
    [i \in 1..Len(history) |->
        IF history[i].role = "tool" THEN TruncatedToolMessage(history[i], config)
        ELSE history[i]]

RECURSIVE FindRecentStart(_, _, _, _)
\* the loop from the end of history backward: the position (from 1) of the
\* summarize_after-th user message met, 0 if the loop ends without one
FindRecentStart(history, i, user_count, summarize_after) ==
    IF i = 0 THEN 0
    ELSE IF history[i].role = "user"
         THEN IF user_count + 1 = summarize_after THEN i
              ELSE FindRecentStart(history, i - 1, user_count + 1, summarize_after)
         ELSE FindRecentStart(history, i - 1, user_count, summarize_after)

\* RecentStart starting the recent part one user message later
RecentStart_OneLate(history, summarize_after) ==
    LET found == FindRecentStart(history, Len(history), 1, summarize_after)
    IN  IF found = 0 THEN 1 ELSE found

\* recent_start_idx, as a position from 1 (None becomes the first position)
RecentStart(history, summarize_after) ==
    LET found == FindRecentStart(history, Len(history), 0, summarize_after)
    IN  IF found = 0 THEN 1 ELSE found

RECURSIVE FirstLine(_)
\* content.split("\n")[0]
FirstLine(s) ==
    IF s = <<>> \/ Head(s) = "\n" THEN <<>> ELSE <<Head(s)>> \o FirstLine(Tail(s))

\* the topic length kept of a user message, of an assistant message, and the topics kept
UserTopicChars == 100

AnswerChars == 80

TopicsKept == 3

RECURSIVE Topics(_)
\* the loop of _create_summary: the topics of the messages, in order
Topics(messages) ==
    IF messages = <<>> THEN <<>>
    ELSE LET msg == Head(messages)
             content == ContentOf(msg)
         IN  ( IF msg.role = "user" /\ content # <<>>
               THEN << UserAsked \o RStrip(LStrip(SliceTo(content, UserTopicChars)))
                          \o (IF Len(content) > UserTopicChars THEN Ellipsis ELSE <<>>) >>
               ELSE IF msg.role = "assistant" /\ content # <<>> /\ msg.tool_calls = <<>>
               THEN << Answered \o SliceTo(FirstLine(content), AnswerChars) >>
               ELSE <<>> )
             \o Topics(Tail(messages))

RECURSIVE Join(_, _)
\* sep.join(strings)
Join(strings, sep) ==
    IF strings = <<>> THEN <<>>
    ELSE IF Len(strings) = 1 THEN strings[1]
    ELSE strings[1] \o sep \o Join(Tail(strings), sep)

\* ConversationHistoryManager._create_summary(messages)
CreateSummary(messages) ==
    LET topics == Topics(messages)
    IN  IF topics = <<>> THEN GenericSummary
        ELSE Join(LastN(topics, TopicsKept), TopicSeparator)

\* the synthetic message optimize inserts
SummaryMessage(messages) ==
    Message("assistant", <<SummaryOpening \o CreateSummary(messages) \o SummaryClosing>>,
            <<>>, "")

\* s with x put before position i (from 1): list.insert(i - 1, x)
InsertAt(s, i, x) == SubSeq(s, 1, i - 1) \o <<x>> \o SubSeq(s, i, Len(s))

RECURSIVE SelectPositions(_, _, _)
\* the elements of s whose positions, counted from i, are in the set keep
SelectPositions(s, i, keep) ==
    IF s = <<>> THEN <<>>
    ELSE (IF i \in keep THEN <<Head(s)>> ELSE <<>>) \o SelectPositions(Tail(s), i + 1, keep)

\* ConversationHistoryManager.optimize(history)
Optimize(history, config) ==
    IF history = <<>> THEN history
    ELSE IF CountTurns(history) <= config.max_turns
    THEN TruncateToolResults(history, config)
    ELSE LET recent_start == RecentStart(history, config.summarize_after)
             summarized == { i \in 1..Len(history) :
                                history[i].role # "system" /\ i < recent_start }
             messages_to_summarize == SelectPositions(history, 1, summarized)
             kept == SelectPositions(TruncateToolResults(history, config), 1,
                                     (1..Len(history)) \ summarized)
             insert_at == IF kept # <<>> /\ kept[1].role = "system" THEN 2 ELSE 1
         IN  IF messages_to_summarize # <<>>
             THEN InsertAt(kept, insert_at, SummaryMessage(messages_to_summarize))
             ELSE kept

\* Prune keeping max_messages of the rest behind the system prompt
Prune_KeepsOneMore(history, max_messages) ==
    IF Len(history) <= max_messages THEN history
    ELSE IF history # <<>> /\ history[1].role = "system"
    THEN <<history[1]>> \o SliceFrom(Tail(history), -max_messages)
    ELSE SliceFrom(history, -max_messages)

\* ConversationHistoryManager.prune(history, max_messages)
Prune(history, max_messages) ==
    IF Len(history) <= max_messages THEN history
    ELSE IF history # <<>> /\ history[1].role = "system"
    THEN <<history[1]>> \o SliceFrom(Tail(history), -(max_messages - 1))
    ELSE SliceFrom(history, -max_messages)

----------------------------------------------------------------------------
(* ConversationHistoryManager: the transcript of a conversation *)

\* largest max_turns and summarize_after a manager is configured with
MaxTurns == 2

\* max_tool_result_tokens the manager is configured with (scaled)
ToolResultTokens == 6

\* messages appended to a transcript per behaviour
MaxAppends == 6

\* largest max_messages prune is called with
MaxPrune == 3

DigitOf(n) == <<"0", "1", "2", "3", "4", "5", "6", "7", "8", "9">>[n + 1]

\* the system prompt the conversation starts with
SystemMessage == Message("system", << <<"s", "y", "s">> >>, <<>>, "")

\* the n-th message appended, a user message: " q<n> "
UserMessage(n) == Message("user", << <<" ", "q", DigitOf(n), " ">> >>, <<>>, "")

\* the n-th message appended, a user message beyond the budget of
\* _summarize_message for a user message: " q<n> " and then x's
LongUserMessage(n) ==
    Message("user",
            << <<" ", "q", DigitOf(n), " ">>
                 \o [i \in 1..(UserSummaryTokens * CharsPerToken) |-> "x"] >>,
            <<>>, "")

\* the n-th message appended, a final answer of two lines: "a<n>\nz"
AssistantMessage(n) == Message("assistant", << <<"a", DigitOf(n), "\n", "z">> >>, <<>>, "")

\* the n-th message appended, an assistant message that calls a tool
ToolCallMessage(n) == Message("assistant", NoContent, <<DigitOf(n)>>, "")

\* the results of tools: a short one, and one beyond the budget of a tool message
ToolResults ==
    { <<"o", "k">>,
      [i \in 1..(ToolResultTokens * CharsPerToken + 8) |-> "x"] }

\* the message of the result of the tool call of the n-th message
ToolMessage(n, result) == Message("tool", <<result>>, <<>>, DigitOf(n))

\* the last call on the transcript, its arguments and what it returned
HistoryCall(op, history, max_messages, ret) ==
    [op |-> op, history |-> history, max_messages |-> max_messages, ret |-> ret]

LastRole == h_history[Len(h_history)].role

\* chat appends the user's message
AppendUser ==
    /\ h_appended < MaxAppends
    /\ LastRole \in {"system", "assistant", "tool"}
    /\ LastRole = "assistant" => h_history[Len(h_history)].tool_calls = <<>>
    /\ h_history' = Append(h_history, UserMessage(h_appended + 1))
    /\ h_appended' = h_appended + 1
    /\ h_last' = HistoryCall("append", <<>>, 0, <<>>)
    /\ UNCHANGED <<h_config, beside_history>>

\* chat appends the user's message, a long one
AppendLongUser ==
    /\ h_appended < MaxAppends
    /\ LastRole \in {"system", "assistant", "tool"}
    /\ LastRole = "assistant" => h_history[Len(h_history)].tool_calls = <<>>
    /\ h_history' = Append(h_history, LongUserMessage(h_appended + 1))
    /\ h_appended' = h_appended + 1
    /\ h_last' = HistoryCall("append", <<>>, 0, <<>>)
    /\ UNCHANGED <<h_config, beside_history>>

\* chat appends the final answer
AppendAssistant ==
    /\ h_appended < MaxAppends
    /\ LastRole \in {"user", "tool"}
    /\ h_history' = Append(h_history, AssistantMessage(h_appended + 1))
    /\ h_appended' = h_appended + 1
    /\ h_last' = HistoryCall("append", <<>>, 0, <<>>)
    /\ UNCHANGED <<h_config, beside_history>>

\* chat appends an assistant message with a tool call and the tool's result
AppendToolRound(result) ==
    /\ h_appended + 1 < MaxAppends
    /\ LastRole \in {"user", "tool"}
    /\ h_history' = h_history \o << ToolCallMessage(h_appended + 1),
                                    ToolMessage(h_appended + 1, result) >>
    /\ h_appended' = h_appended + 2
    /\ h_last' = HistoryCall("append", <<>>, 0, <<>>)
    /\ UNCHANGED <<h_config, beside_history>>

\* history_manager.optimize(self.conversation_history): what is sent, the transcript staying
OptimizeCall ==
    /\ h_last' = HistoryCall("optimize", h_history, 0, Optimize(h_history, h_config))
    /\ UNCHANGED <<h_history, h_config, h_appended, beside_history>>

\* self.conversation_history = history_manager.prune(self.conversation_history, max_messages)
PruneCall(max_messages) ==
    /\ h_history' = Prune(h_history, max_messages)
    /\ h_last' = HistoryCall("prune", h_history, max_messages, h_history')
    /\ UNCHANGED <<h_config, h_appended, beside_history>>

\* ConversationHistoryManager.__init__(config) and the transcript chat starts with
HistoryInit(max_turns, summarize_after, max_tool_result_tokens) ==
    /\ h_config = [max_turns |-> max_turns, summarize_after |-> summarize_after,
                   max_tool_result_tokens |-> max_tool_result_tokens]
    /\ h_history = <<SystemMessage>>
    /\ h_appended = 0
    /\ h_last = HistoryCall("init", <<>>, 0, <<>>)

----------------------------------------------------------------------------
(* Result truncator: tool results as Python values, str() and json *)

\* a tool result: a str, an int, a list of values, or a dict as the sequence
\* of its items in insertion order
StrValue(s) == [type |-> "str", str |-> s, int |-> 0, items |-> <<>>]

IntValue(n) == [type |-> "int", str |-> <<>>, int |-> n, items |-> <<>>]

ListValue(items) == [type |-> "list", str |-> <<>>, int |-> 0, items |-> items]

DictValue(items) == [type |-> "dict", str |-> <<>>, int |-> 0, items |-> items]

\* one item of a dict
Item(key, value) == [key |-> key, value |-> value]

\* key in data
HasKey(data, key) == \E i \in 1..Len(data.items) : data.items[i].key = key

\* data[key]
DictGet(data, key) ==
    data.items[CHOOSE i \in 1..Len(data.items) : data.items[i].key = key].value

\* data[key] = value: a key the dict holds keeps its place, a new key goes last
DictSet(data, key, value) ==
    IF HasKey(data, key)
    THEN DictValue([i \in 1..Len(data.items) |->
                       IF data.items[i].key = key THEN Item(key, value)
                       ELSE data.items[i]])
    ELSE DictValue(Append(data.items, Item(key, value)))

RECURSIVE Digits(_)
\* the decimal digits of a natural number
Digits(n) ==
    IF n < 10 THEN <<DigitOf(n)>>
    ELSE Digits(n \div 10) \o <<DigitOf(n % 10)>>

\* str(n) of an int
IntText(n) == IF n < 0 THEN <<"-">> \o Digits(-n) ELSE Digits(n)

\* the characters of s, each replaced by escape[c] where escape has one
EscapeWith(s, escape) ==
    IF \A i \in 1..Len(s) : s[i] \notin DOMAIN escape THEN s
    ELSE Join([i \in 1..Len(s) |->
                  IF s[i] \in DOMAIN escape THEN escape[s[i]] ELSE <<s[i]>>], <<>>)

\* repr(s) of a str: in apostrophes, in quotes when s holds an apostrophe and no quote
ReprOfStr(s) ==
    LET chars == {s[i] : i \in 1..Len(s)}
        backslashes == ("\\" :> <<"\\", "\\">>) @@ ("\n" :> <<"\\", "n">>)
    IN  IF "'" \in chars /\ "\"" \notin chars
        THEN <<"\"">> \o EscapeWith(s, backslashes) \o <<"\"">>
        ELSE <<"'">> \o EscapeWith(s, backslashes @@ ("'" :> <<"\\", "'">>)) \o <<"'">>

RECURSIVE Repr(_)
\* repr(value)
Repr(value) ==
    CASE value.type = "str" -> ReprOfStr(value.str)
      [] value.type = "int" -> IntText(value.int)
      [] value.type = "list" ->
            <<"[">> \o Join([i \in 1..Len(value.items) |-> Repr(value.items[i])],
                           <<",", " ">>) \o <<"]">>
      [] value.type = "dict" ->
            <<"{">> \o Join([i \in 1..Len(value.items) |->
                               ReprOfStr(value.items[i].key) \o <<":", " ">>
                                   \o Repr(value.items[i].value)],
                           <<",", " ">>) \o <<"}">>

\* str(value): a str is itself, any other value its repr
Str(value) == IF value.type = "str" THEN value.str ELSE Repr(value)

\* a str as json.dumps writes it: quoted, with quote, backslash and newline escaped
JsonString(s) ==
    <<"\"">> \o EscapeWith(s, ("\"" :> <<"\\", "\"">>) @@ ("\\" :> <<"\\", "\\">>)
                               @@ ("\n" :> <<"\\", "n">>)) \o <<"\"">>

RECURSIVE JsonDumps(_)
\* json.dumps(value, default=str)
JsonDumps(value) ==
    CASE value.type = "str" -> JsonString(value.str)
      [] value.type = "int" -> IntText(value.int)
      [] value.type = "list" ->
            <<"[">> \o Join([i \in 1..Len(value.items) |-> JsonDumps(value.items[i])],
                           <<",", " ">>) \o <<"]">>
      [] value.type = "dict" ->
            <<"{">> \o Join([i \in 1..Len(value.items) |->
                               JsonString(value.items[i].key) \o <<":", " ">>
                                   \o JsonDumps(value.items[i].value)],
                           <<",", " ">>) \o <<"}">>

RECURSIVE KeysHeld(_)
\* the keys of the dicts of a value, at any depth
KeysHeld(value) ==
    CASE value.type = "list" ->
            UNION {KeysHeld(value.items[i]) : i \in 1..Len(value.items)}
      [] value.type = "dict" ->
            {value.items[i].key : i \in 1..Len(value.items)}
                \cup UNION {KeysHeld(value.items[i].value) : i \in 1..Len(value.items)}
      [] OTHER -> {}

----------------------------------------------------------------------------
(* Result truncator: truncate_tool_result *)

\* default of max_chars
MAX_RESULT_CHARS == 2000

\* keys whose values are kept: product_name, product_id, name, id, sku, category, region, status, severity, days_of_supply, units_on_hand, units_available, insight_type, title, description, message, revenue, units_sold, transaction_count, transactions, units, avg_price_per_unit, pct_of_total, dealer_name, state
CRITICAL_KEYS ==
    << <<"p", "r", "o", "d", "u", "c", "t", "_", "n", "a", "m", "e">>,
       <<"p", "r", "o", "d", "u", "c", "t", "_", "i", "d">>,
       <<"n", "a", "m", "e">>,
       <<"i", "d">>,
       <<"s", "k", "u">>,
       <<"c", "a", "t", "e", "g", "o", "r", "y">>,
       <<"r", "e", "g", "i", "o", "n">>,
       <<"s", "t", "a", "t", "u", "s">>,
       <<"s", "e", "v", "e", "r", "i", "t", "y">>,
       <<"d", "a", "y", "s", "_", "o", "f", "_", "s", "u", "p", "p", "l", "y">>,
       <<"u", "n", "i", "t", "s", "_", "o", "n", "_", "h", "a", "n", "d">>,
       <<"u", "n", "i", "t", "s", "_", "a", "v", "a", "i", "l", "a", "b", "l", "e">>,
       <<"i", "n", "s", "i", "g", "h", "t", "_", "t", "y", "p", "e">>,
       <<"t", "i", "t", "l", "e">>,
       <<"d", "e", "s", "c", "r", "i", "p", "t", "i", "o", "n">>,
       <<"m", "e", "s", "s", "a", "g", "e">>,
       <<"r", "e", "v", "e", "n", "u", "e">>,
       <<"u", "n", "i", "t", "s", "_", "s", "o", "l", "d">>,
       <<"t", "r", "a", "n", "s", "a", "c", "t", "i", "o", "n", "_", "c", "o", "u", "n", "t">>,
       <<"t", "r", "a", "n", "s", "a", "c", "t", "i", "o", "n", "s">>,
       <<"u", "n", "i", "t", "s">>,
       <<"a", "v", "g", "_", "p", "r", "i", "c", "e", "_", "p", "e", "r", "_", "u", "n", "i", "t">>,
       <<"p", "c", "t", "_", "o", "f", "_", "t", "o", "t", "a", "l">>,
       <<"d", "e", "a", "l", "e", "r", "_", "n", "a", "m", "e">>,
       <<"s", "t", "a", "t", "e">> >>

\* keys of summary data: total, count, summary, status, error, total_revenue, total_units, insight_count, total_products, critical_count, warning_count, total_transactions, periods
SUMMARY_KEYS ==
    << <<"t", "o", "t", "a", "l">>,
       <<"c", "o", "u", "n", "t">>,
       <<"s", "u", "m", "m", "a", "r", "y">>,
       <<"s", "t", "a", "t", "u", "s">>,
       <<"e", "r", "r", "o", "r">>,
       <<"t", "o", "t", "a", "l", "_", "r", "e", "v", "e", "n", "u", "e">>,
       <<"t", "o", "t", "a", "l", "_", "u", "n", "i", "t", "s">>,
       <<"i", "n", "s", "i", "g", "h", "t", "_", "c", "o", "u", "n", "t">>,
       <<"t", "o", "t", "a", "l", "_", "p", "r", "o", "d", "u", "c", "t", "s">>,
       <<"c", "r", "i", "t", "i", "c", "a", "l", "_", "c", "o", "u", "n", "t">>,
       <<"w", "a", "r", "n", "i", "n", "g", "_", "c", "o", "u", "n", "t">>,
       <<"t", "o", "t", "a", "l", "_", "t", "r", "a", "n", "s", "a", "c", "t", "i", "o", "n", "s">>,
       <<"p", "e", "r", "i", "o", "d", "s">> >>

\* "... [truncated for length]\"}"
LengthMarker == <<".", ".", ".", " ", "[", "t", "r", "u", "n", "c", "a", "t", "e", "d", " ", "f", "o", "r", " ", "l", "e", "n", "g", "t", "h", "]", "\"", "}">>

\* "[nested data]"
NestedData == <<"[", "n", "e", "s", "t", "e", "d", " ", "d", "a", "t", "a", "]">>

\* "_more_fields"
MoreFields == <<"_", "m", "o", "r", "e", "_", "f", "i", "e", "l", "d", "s">>

\* the depth below which values are kept
DepthLimit == 4

\* characters a str outside the preserved keys keeps
StringLimit == 300

\* characters the str of a preserved key keeps
PreservedStringLimit == 500

\* characters charged for an item besides its key and its value
ItemOverhead == 10

\* the budget at which the other keys are given up
BudgetFloor == 200

\* the largest budget handed to the value of a key
ValueBudget == 500

\* a list up to this length keeps every item
ShortList == 5

\* items a longer list keeps
MaxListItems == 8

\* characters set aside for the note of a shortened list
ListNoteRoom == 100

\* characters a cut plain string leaves for its marker
PlainMarkerRoom == 20

\* characters the final cut leaves for its marker
LengthMarkerRoom == 50

RECURSIVE PreservedPass(_, _, _, _)
\* _truncate_dict, first pass: the keys of preserve_keys that data holds, in
\* the order of preserve_keys (a key listed twice is charged twice)
PreservedPass(preserve_keys, data, result, char_budget) ==
    IF preserve_keys = <<>> THEN [result |-> result, char_budget |-> char_budget]
    ELSE LET key == Head(preserve_keys)
         IN  IF HasKey(data, key)
             THEN LET found == DictGet(data, key)
                      value == IF found.type = "str" /\ Len(found.str) > PreservedStringLimit
                               THEN StrValue(SliceTo(found.str, PreservedStringLimit) \o Ellipsis)
                               ELSE found
                  IN  PreservedPass(Tail(preserve_keys), data, DictSet(result, key, value),
                                    char_budget - (Len(Str(value)) + Len(key) + ItemOverhead))
             ELSE PreservedPass(Tail(preserve_keys), data, result, char_budget)

RECURSIVE TruncateValue(_, _, _, _)
RECURSIVE TruncateDict(_, _, _, _)
RECURSIVE TruncateList(_, _, _, _)
RECURSIVE OtherPass(_, _, _, _, _, _)

\* _truncate_dict, second pass over the items left of data.items()
OtherPass(items, data, result, char_budget, preserve_keys, depth) ==
    IF items = <<>> THEN result
    ELSE LET key == Head(items).key
             value == Head(items).value
         IN  IF HasKey(result, key)
             THEN OtherPass(Tail(items), data, result, char_budget, preserve_keys, depth)
             ELSE IF char_budget <= BudgetFloor
             THEN LET remaining == Len(data.items) - Len(result.items)
                  IN  IF remaining > 0
                      THEN DictSet(result, MoreFields, IntValue(remaining))
                      ELSE result
             ELSE LET truncated_value == TruncateValue(value, Min(ValueBudget, char_budget),
                                                       preserve_keys, depth + 1)
                      value_len == Len(Str(truncated_value)) + Len(key) + ItemOverhead
                  IN  IF value_len < char_budget
                      THEN OtherPass(Tail(items), data, DictSet(result, key, truncated_value),
                                     char_budget - value_len, preserve_keys, depth)
                      ELSE OtherPass(Tail(items), data, result, char_budget,
                                     preserve_keys, depth)

\* _truncate_dict(data, max_chars, preserve_keys, depth)
TruncateDict(data, max_chars, preserve_keys, depth) ==
    LET first == PreservedPass(preserve_keys, data, DictValue(<<>>), max_chars)
    IN  OtherPass(data.items, data, first.result, first.char_budget, preserve_keys, depth)

\* _truncate_list(data, max_chars, preserve_keys, depth)
TruncateList(data, max_chars, preserve_keys, depth) ==
    LET total_count == Len(data.items)
        max_items == Min(MaxListItems, total_count)
        per_item_budget == (max_chars - ListNoteRoom) \div max_items
        truncated == ListValue([i \in 1..max_items |->
                         TruncateValue(data.items[i], per_item_budget, preserve_keys, depth + 1)])
    IN  IF data.items = <<>> THEN ListValue(<<>>)
        ELSE IF total_count <= ShortList
        THEN ListValue([i \in 1..total_count |->
                 TruncateValue(data.items[i], max_chars \div Max(1, total_count),
                               preserve_keys, depth + 1)])
        ELSE IF total_count > max_items
        THEN DictValue(<< Item(<<"i", "t", "e", "m", "s">>, truncated),
                          Item(<<"t", "o", "t", "a", "l", "_", "c", "o", "u", "n", "t">>, IntValue(total_count)),
                          Item(<<"s", "h", "o", "w", "i", "n", "g">>, IntValue(max_items)) >>)
        ELSE truncated

\* _truncate_value(value, max_chars, preserve_keys, depth)
TruncateValue(value, max_chars, preserve_keys, depth) ==
    IF depth > DepthLimit THEN StrValue(NestedData)
    ELSE CASE value.type = "dict" -> TruncateDict(value, max_chars, preserve_keys, depth)
           [] value.type = "list" -> TruncateList(value, max_chars, preserve_keys, depth)
           [] value.type = "str" ->
                 IF Len(value.str) > StringLimit
                 THEN StrValue(SliceTo(value.str, StringLimit) \o Ellipsis)
                 ELSE value
           [] OTHER -> value

\* Optional data: NoData is a failed json.loads, <<v>> is the value v
NoData == <<>>

\* a str of n characters
Text(n) == [i \in 1..n |-> "x"]

\* longest list among the tool results
MaxListLen == 9

\* deepest nesting of dicts among the tool results
MaxNesting == 6

\* most preserved keys with a long str among the tool results
MaxLongFields == 5

\* most preserved keys a result holds when the caller passes preserve_keys
MaxShuffled == 3

\* a list of n records {"id": i}
Records(n) == ListValue([i \in 1..n |-> DictValue(<< Item(<<"i", "d">>, IntValue(i)) >>)])

RECURSIVE Nested(_)
\* {"a": {"a": ... 1}}, d dicts deep
Nested(d) ==
    IF d = 0 THEN IntValue(1) ELSE DictValue(<< Item(<<"a">>, Nested(d - 1)) >>)

\* keys of CRITICAL_KEYS that carry long descriptions
LongKeys == << <<"n", "a", "m", "e">>, <<"s", "k", "u">>, <<"t", "i", "t", "l", "e">>, <<"d", "e", "s", "c", "r", "i", "p", "t", "i", "o", "n">>, <<"m", "e", "s", "s", "a", "g", "e">>,
               <<"c", "a", "t", "e", "g", "o", "r", "y">>, <<"r", "e", "g", "i", "o", "n">> >>

\* "notes", a key outside CRITICAL_KEYS and SUMMARY_KEYS
NotesKey == <<"n", "o", "t", "e", "s">>

\* items under keys that are not preserved: a str beyond StringLimit, a str
\* with a quote and a newline (say "hi"\n), a list beyond ShortList, an int
OtherItems ==
    << Item(NotesKey, StrValue(Text(StringLimit + 1))),
       Item(<<"c", "o", "m", "m", "e", "n", "t">>, StrValue(<<"s", "a", "y", " ", "\"", "h", "i", "\"", "\n">>)),
       Item(<<"r", "o", "w", "s">>, Records(ShortList + 1)),
       Item(<<"e", "x", "t", "r", "a">>, IntValue(5)) >>

\* a product record: k preserved keys with a str beyond PreservedStringLimit,
\* the id, and the items of others
Product(k, others) ==
    DictValue([i \in 1..k |-> Item(LongKeys[i], StrValue(Text(PreservedStringLimit + 100)))]
              \o << Item(<<"i", "d">>, IntValue(7)) >> \o others)

\* a report: status and total, which are preserved, before and after other items
Report ==
    DictValue(<< Item(<<"r", "o", "w", "s">>, Records(MaxListItems + 1)),
                 Item(<<"s", "t", "a", "t", "u", "s">>, StrValue(<<"o", "k">>)),
                 Item(NotesKey, StrValue(Text(StringLimit + 1))),
                 Item(<<"t", "o", "t", "a", "l">>, IntValue(42)),
                 Item(<<"e", "x", "t", "r", "a">>, IntValue(5)),
                 Item(<<"m", "o", "r", "e">>, IntValue(6)) >>)

\* a memo: notes of StringLimit characters, which no budget up to that length
\* has room for, before a small item
Memo ==
    DictValue(<< Item(NotesKey, StrValue(Text(StringLimit))),
                 Item(<<"e", "x", "t", "r", "a">>, IntValue(5)) >>)

\* {"error": message}
ErrorData(message) == DictValue(<< Item(<<"e", "r", "r", "o", "r">>, StrValue(message)) >>)

\* str(e) of the exception a tool raises
ToolFailure == <<"b", "o", "o", "m">>

\* "Unknown function: "
UnknownFunction == <<"U", "n", "k", "n", "o", "w", "n", " ", "f", "u", "n", "c", "t", "i", "o", "n", ":", " ">>

\* a function name that is not in TOOL_FUNCTIONS
NoSuchTool == <<"n", "o", "_", "s", "u", "c", "h", "_", "t", "o", "o", "l">>

\* the parsed tool results: lists, nested dicts, product records, a report,
\* and the errors chat reports for a tool
TruncatorData ==
    {Records(n) : n \in 0..MaxListLen}
        \cup {Nested(d) : d \in 1..MaxNesting}
        \cup {Product(k, others) : k \in 0..MaxLongFields, others \in {<<>>, OtherItems}}
        \cup {Report, Memo}
        \cup {ErrorData(ToolFailure), ErrorData(UnknownFunction \o NoSuchTool)}

\* the JSON documents among the tool results, each with the value it stands for
JsonTexts == {[text |-> JsonDumps(v), data |-> v] : v \in TruncatorData}

\* the plain texts among the tool results: they are empty or start with x, so
\* none of them is a JSON document
PlainTexts == {Text(n) : n \in {0, 30, 100, MAX_RESULT_CHARS + 100}}

\* what truncate_tool_result is given: plain text, a JSON document, parsed data
TruncatorResults ==
    {StrValue(text) : text \in PlainTexts}
        \cup {StrValue(j.text) : j \in JsonTexts}
        \cup TruncatorData

\* max_chars: the default, the 1500 of summarize_sql_result, and smaller budgets
MaxCharsChoices == {10, 30, 60, 250, 1500, MAX_RESULT_CHARS}

\* preserve_keys of the caller: none, or "notes"
PreserveKeysChoices == {<<>>, <<NotesKey>>}

\* json.loads(text) for the strings of TruncatorResults: the value of a JSON
\* document, NoData for JSONDecodeError
JsonLoads(text) ==
    IF \E j \in JsonTexts : j.text = text
    THEN << (CHOOSE j \in JsonTexts : j.text = text).data >>
    ELSE NoData

\* data, or NoData: json.loads of a str, the value itself otherwise
ParsedData(result) ==
    IF result.type = "str" THEN JsonLoads(result.str) ELSE <<result>>

\* the sequences that hold each element of the set S once
Orderings(S) ==
    {s \in [1..Cardinality(S) -> S] :
        \A i, j \in 1..Cardinality(S) : i # j => s[i] # s[j]}

\* the keys of all_preserve_keys that the data of result holds
HeldPreserved(preserve_keys, result) ==
    LET data == ParsedData(result)
        preserved == {CRITICAL_KEYS[i] : i \in 1..Len(CRITICAL_KEYS)}
                        \cup {SUMMARY_KEYS[i] : i \in 1..Len(SUMMARY_KEYS)}
                        \cup {preserve_keys[i] : i \in 1..Len(preserve_keys)}
    IN  IF data = NoData THEN {} ELSE KeysHeld(data[1]) \cap preserved

\* all_preserve_keys: CRITICAL_KEYS + SUMMARY_KEYS, and with preserve_keys
\* list(set(...)), whose order the set decides.  _truncate_dict passes over the
\* keys the data does not hold, so an order of the keys held stands for every
\* order of the set that agrees with it.
AllPreserveKeys(preserve_keys, result) ==
    IF preserve_keys = <<>> THEN {CRITICAL_KEYS \o SUMMARY_KEYS}
    ELSE Orderings(HeldPreserved(preserve_keys, result))

\* output[:max_chars - 50] + '... [truncated for length]"}' when output is too long
FinalCut(output, max_chars) ==
    IF Len(output) > max_chars
    THEN SliceTo(output, max_chars - LengthMarkerRoom) \o LengthMarker
    ELSE output

\* truncate_tool_result(result, max_chars, preserve_keys), all_preserve_keys
\* being the list it builds: the truncated data (none for plain text) and the
\* string returned
TruncateToolResult(result, max_chars, all_preserve_keys) ==
    LET data == ParsedData(result)
        truncated == TruncateValue(data[1], max_chars, all_preserve_keys, 0)
    IN  IF data = NoData
        THEN [truncated |-> NoData,
              output |-> IF Len(result.str) <= max_chars THEN result.str
                         ELSE SliceTo(result.str, max_chars - PlainMarkerRoom)
                                  \o TruncatedMarker]
        ELSE [truncated |-> <<truncated>>,
              output |-> FinalCut(JsonDumps(truncated), max_chars)]

\* the last call of truncate_tool_result, its arguments and what it returned
TruncatorCall(op, result, max_chars, preserve_keys, ret) ==
    [op |-> op, result |-> result, max_chars |-> max_chars,
     preserve_keys |-> preserve_keys, truncated |-> ret.truncated, output |-> ret.output]

\* nothing returned yet
NotReturned == [truncated |-> NoData, output |-> <<>>]

\* the call truncate_tool_result(result, max_chars, preserve_keys) returns
TruncateToolResultCall ==
    /\ t_last.op = "call"
    /\ \E all_preserve_keys \in AllPreserveKeys(t_last.preserve_keys, t_last.result) :
          t_last' = TruncatorCall("truncate", t_last.result, t_last.max_chars,
                        t_last.preserve_keys,
                        TruncateToolResult(t_last.result, t_last.max_chars,
                                           all_preserve_keys))
    /\ UNCHANGED beside_truncator

\* no call made
TruncatorInit == t_last = TruncatorCall("init", StrValue(<<>>), 0, <<>>, NotReturned)

\* truncate_tool_result called with its arguments
TruncatorCalled(result, max_chars, preserve_keys) ==
    /\ preserve_keys # <<>> =>
          Cardinality(HeldPreserved(preserve_keys, result)) <= MaxShuffled
    /\ t_last = TruncatorCall("call", result, max_chars, preserve_keys, NotReturned)

----------------------------------------------------------------------------
(* STIHLAnalyticsAgent: the calls chat makes on the caches *)

\* bool(s) of an Optional[str]: None and "" are false
Truthy(s) == s # NoContent /\ s[1] # <<>>

\* QueryCache.get(query) at time t: the cache and the statistics it leaves,
\* what it returns and what it logs
QueryCacheGet(cache, stats, query, t, ttl_seconds) ==
    LET key == MakeKey(query) IN
    IF key \notin Keys(cache)
    THEN [cache |-> cache, stats |-> StatsMiss(stats), ret |-> NoEntry, log |-> <<>>]
    ELSE IF Expired(Lookup(cache, key), t, ttl_seconds)
    THEN [cache |-> RemoveExpired(cache, key), stats |-> StatsMiss(stats),
          ret |-> NoEntry, log |-> <<"expired">>]
    ELSE LET entry == CountHit(Lookup(cache, key))
         IN  [cache |-> PutItem(MoveToEnd(cache, key), key, entry),
              stats |-> StatsHit(stats), ret |-> <<entry>>, log |-> <<"hit">>]

\* QueryCache.set(query, response, skill_name) at time t: the cache it leaves
QueryCacheSet(cache, max_size, query, response, skill_name, t) ==
    PutItem(EvictOldest(cache, max_size), MakeKey(query),
            NewEntry(MakeKey(query), query, response, skill_name, t))

\* SemanticCache.get_similar(query, query_embedding) at time t: the entries and
\* the statistics it leaves, what it returns and what it logs
SemanticCacheGetSimilar(entries, stats, query_embedding, t, ttl_seconds) ==
    IF entries = <<>> \/ query_embedding = <<>>
    THEN [entries |-> entries, stats |-> [stats EXCEPT !.misses = @ + 1],
          ret |-> NoEntry, log |-> <<>>]
    ELSE LET valid_entries == ValidEntries(entries, t, ttl_seconds)
             best == Scan(valid_entries, query_embedding,
                          [similarity |-> SimZero, match |-> NoEntry])
             scores == IF SimGT(best.similarity, SimZero)
                       THEN LastN(Append(stats.similarity_scores, best.similarity),
                                  ScoreWindow)
                       ELSE stats.similarity_scores
         IN  IF best.match # NoEntry
                /\ AtLeastThreshold(best.similarity, SimilarityThreshold)
             THEN [entries |-> valid_entries,
                   stats |-> [stats EXCEPT !.hits = @ + 1, !.similarity_scores = scores],
                   ret |-> <<HitEntry(best.match[1])>>, log |-> <<"hit">>]
             ELSE [entries |-> valid_entries,
                   stats |-> [stats EXCEPT !.misses = @ + 1, !.similarity_scores = scores],
                   ret |-> NoEntry,
                   log |-> IF SimGT(best.similarity, SimZero) THEN <<"miss">> ELSE <<>>]

\* SemanticCache.set(query, response, embedding, skill_name) at time t, the
\* set call number seq: the entries it leaves
SemanticCacheSet(entries, max_size, query, response, embedding, skill_name, t, seq) ==
    Append(PopOldest(entries, max_size),
           [query |-> query, response |-> response, embedding |-> embedding,
            skill_name |-> skill_name, created_at |-> t, hit_count |-> 0,
            seq |-> seq])

----------------------------------------------------------------------------
(* STIHLAnalyticsAgent: chat *)

\* calls of chat per behaviour
MaxChats == 2

\* largest max_tool_calls chat is called with
MaxToolCalls == 2

\* ttl_seconds=3600 of the agent's exact cache, in clock ticks
QueryTtl == TtlTicks

\* ttl_seconds=7200 of the agent's semantic cache: twice that of the exact cache
SemanticTtl == 2 * TtlTicks

\* max_tool_result_tokens=500 of the agent's HistoryConfig: four characters a
\* token, the max_chars=2000 chat truncates tool results with
AgentToolResultTokens == 500

\* max_messages=50 of the prune in chat (scaled)
ChatMaxMessages == 5

\* BASE_SYSTEM_PROMPT
BasePrompt == SystemMessage.content[1]

\* "I've reached the maximum number of tool calls. Please try a more specific question."
MaxToolCallsResponse == <<"I", "'", "v", "e", " ", "r", "e", "a", "c", "h", "e", "d", " ", "t", "h", "e", " ", "m", "a", "x", "i", "m", "u", "m", " ", "n", "u", "m", "b", "e", "r", " ", "o", "f", " ", "t", "o", "o", "l", " ", "c", "a", "l", "l", "s", ".", " ", "P", "l", "e", "a", "s", "e", " ", "t", "r", "y", " ", "a", " ", "m", "o", "r", "e", " ", "s", "p", "e", "c", "i", "f", "i", "c", " ", "q", "u", "e", "s", "t", "i", "o", "n", ".">>

\* Optional[list[float]]: NoEmbedding is None, the fetch having failed
NoEmbedding == <<>>

\* the names of TOOL_FUNCTIONS the model service calls
KnownTools == { <<"q", "u", "e", "r", "y", "_", "s", "a", "l", "e", "s", "_", "d", "a", "t", "a">> }

\* a response of the model service that is an exception
Raises == [raises |-> TRUE, content |-> NoContent, tool_calls |-> <<>>]

\* a response of the model service without tool calls
Answer(content) == [raises |-> FALSE, content |-> content, tool_calls |-> <<>>]

\* a response of the model service that calls tools
Calls(tool_calls) == [raises |-> FALSE, content |-> NoContent, tool_calls |-> tool_calls]

\* a tool call of a response: its id, the function named, whether its
\* arguments are a JSON document, and what the function does when called:
\* it returns result, or raises an exception whose text is result
ToolCall(id, name, arguments_ok, raises, result) ==
    [id |-> id, name |-> name, arguments_ok |-> arguments_ok,
     raises |-> raises, result |-> result]

\* json.dumps({"error": message})
ErrorResult(message) == StrValue(JsonDumps(ErrorData(message)))

\* result of the tool call: what the function returns, the error of the
\* exception it raises, the error of a function that is not in TOOL_FUNCTIONS
ToolResult(tool_call) ==
    IF tool_call.name \in KnownTools
    THEN IF tool_call.raises THEN ErrorResult(tool_call.result.str)
         ELSE tool_call.result
    ELSE ErrorResult(UnknownFunction \o tool_call.name)

\* skill.get_enhanced_prompt(base_prompt): the base prompt, then the section
\* of the skill, kept as a heading and the skill's name
EnhancedPrompt(skill_name, base_prompt) ==
    base_prompt \o <<"\n", "\n", "#", "#", " ">> \o <<skill_name>>

\* _update_system_prompt(new_prompt)
UpdateSystemPrompt(history, new_prompt) ==
    IF history # <<>> /\ history[1].role = "system"
    THEN [history EXCEPT ![1].content = <<new_prompt>>]
    ELSE <<Message("system", <<new_prompt>>, <<>>, "")>> \o history

\* the progress of a call of chat: the transcript, the messages being sent,
\* final_response, whether an exception ended the call, the calls made on the
\* components in order, the messages of each completion request with the
\* transcript as it stood then, and the last call of truncate_tool_result
Progress(history, optimized, events, truncator) ==
    [history |-> history, optimized |-> optimized, final_response |-> NoContent,
     raised |-> FALSE, events |-> events, sent |-> <<>>, truncator |-> truncator]

\* one tool call of a response: the function called, its result truncated and
\* added to both histories
RunTool(run, tool_call) ==
    Once(TruncateToolResult(ToolResult(tool_call), MAX_RESULT_CHARS,
                            CRITICAL_KEYS \o SUMMARY_KEYS),
         LAMBDA ret :
            [run EXCEPT !.history = Append(@, Message("tool", <<ret.output>>, <<>>,
                                                      tool_call.id)),
                        !.optimized = Append(@, Message("tool", <<ret.output>>, <<>>,
                                                        tool_call.id)),
                        !.events = @ \o <<"tool", "truncate">>,
                        !.truncator = TruncatorCall("truncate", ToolResult(tool_call),
                                                    MAX_RESULT_CHARS, <<>>, ret)])

RECURSIVE RunTools(_, _)
\* for tool_call in response_message.tool_calls, over the calls left;
\* json.loads raises on arguments that are not a JSON document
RunTools(run, tool_calls) ==
    IF tool_calls = <<>> THEN run
    ELSE IF ~Head(tool_calls).arguments_ok THEN [run EXCEPT !.raised = TRUE]
    ELSE RunTools(RunTool(run, Head(tool_calls)), Tail(tool_calls))

\* the assistant message of a response that calls tools
CallingMessage(response) ==
    Message("assistant", response.content,
            [i \in 1..Len(response.tool_calls) |-> response.tool_calls[i].id], "")

RECURSIVE CompletionLoop_OneMore(_, _, _, _)
\* the loop with "while tool_call_count <= max_tool_calls", the model service
\* repeating its last response when asked once more
CompletionLoop_OneMore(run, completions, tool_call_count, max_tool_calls) ==
    IF tool_call_count > max_tool_calls THEN run
    ELSE Once([run EXCEPT !.events = Append(@, "completion"),
                          !.sent = Append(@, [messages |-> run.optimized,
                                              transcript |-> run.history])],
              LAMBDA called :
                 LET response == Head(completions)
                 IN  IF response.raises THEN [called EXCEPT !.raised = TRUE]
                     ELSE IF response.tool_calls = <<>>
                     THEN [called EXCEPT !.final_response = response.content,
                                         !.history = Append(@, Message("assistant",
                                                            response.content, <<>>, ""))]
                     ELSE Once(RunTools([called EXCEPT
                                            !.history = Append(@, CallingMessage(response)),
                                            !.optimized = Append(@, CallingMessage(response))],
                                        response.tool_calls),
                               LAMBDA after :
                                  IF after.raised THEN after
                                  ELSE CompletionLoop_OneMore(
                                           after,
                                           IF Len(completions) > 1 THEN Tail(completions)
                                           ELSE completions,
                                           tool_call_count + 1, max_tool_calls)))

RECURSIVE CompletionLoop(_, _, _, _)
\* while tool_call_count < max_tool_calls, completions being the responses the
\* model service gives from here on
CompletionLoop(run, completions, tool_call_count, max_tool_calls) ==
    IF tool_call_count >= max_tool_calls THEN run
    ELSE Once([run EXCEPT !.events = Append(@, "completion"),
                          !.sent = Append(@, [messages |-> run.optimized,
                                              transcript |-> run.history])],
              LAMBDA called :
                 LET response == Head(completions)
                 IN  IF response.raises THEN [called EXCEPT !.raised = TRUE]
                     ELSE IF response.tool_calls = <<>>
                     THEN [called EXCEPT !.final_response = response.content,
                                         !.history = Append(@, Message("assistant",
                                                            response.content, <<>>, ""))]
                     ELSE Once(RunTools([called EXCEPT
                                            !.history = Append(@, CallingMessage(response)),
                                            !.optimized = Append(@, CallingMessage(response))],
                                        response.tool_calls),
                               LAMBDA after :
                                  IF after.raised THEN after
                                  ELSE CompletionLoop(after, Tail(completions),
                                                      tool_call_count + 1, max_tool_calls)))

\* _check_caches(query), embedding being what _get_embedding gives: the state
\* of the caches after it, what it returns, and the calls it made
\* ("no_embedding" after a fetch that failed, which _get_embedding logs)
CheckCaches(query, embedding) ==
    LET exact == QueryCacheGet(q_cache, q_stats, query, now, QueryTtl)
        exact_hit == a_config.use_caching /\ exact.ret # NoEntry
        fetched == ~exact_hit /\ a_config.use_semantic_cache
        looked_up == fetched /\ embedding # NoEmbedding
        similar == SemanticCacheGetSimilar(s_entries, s_stats, embedding, now, SemanticTtl)
        semantic_hit == looked_up /\ similar.ret # NoEntry
    IN  [exact |-> IF a_config.use_caching THEN <<exact>> ELSE <<>>,
         similar |-> IF looked_up THEN <<similar>> ELSE <<>>,
         cache_hits |-> IF exact_hit \/ semantic_hit THEN 1 ELSE 0,
         ret |-> IF exact_hit THEN <<exact.ret[1].response>>
                 ELSE IF semantic_hit THEN <<similar.ret[1].response>>
                 ELSE NoContent,
         events |-> (IF a_config.use_caching THEN <<"exact_get">> ELSE <<>>)
                        \o (IF fetched THEN <<"embedding">> ELSE <<>>)
                        \o (IF fetched /\ ~looked_up THEN <<"no_embedding">> ELSE <<>>)
                        \o (IF looked_up THEN <<"semantic_get">> ELSE <<>>)]

\* the last call of chat: its arguments,
\* what it returned (none when an exception ended it), the calls it made on
\* the components and the messages of its completion requests
AgentCall(op, user_message, max_tool_calls, ret, raised, events, sent) ==
    [op |-> op, user_message |-> user_message, max_tool_calls |-> max_tool_calls,
     ret |-> ret, raised |-> raised, events |-> events, sent |-> sent]

\* the exact cache after the get of _check_caches, with the histories kept of it
AfterExactGet(checked, query) ==
    LET got == checked.exact[1]
    IN  IF checked.exact = <<>>
        THEN [cache |-> q_cache, stats |-> q_stats, last |-> q_last,
              calls |-> q_calls, recency |-> q_recency]
        ELSE [cache |-> got.cache, stats |-> got.stats,
              last |-> Call("get", query, None, got.ret, got.log),
              calls |-> IF got.ret = NoEntry THEN [q_calls EXCEPT !.none = @ + 1]
                        ELSE [q_calls EXCEPT !.entry = @ + 1],
              recency |-> IF got.ret = NoEntry THEN Forget(q_recency, Keys(got.cache))
                          ELSE Touch(q_recency, MakeKey(query), Keys(got.cache))]

\* the exact cache after the set of _cache_response
AfterExactSet(q, query, response, skill_name) ==
    LET cache == QueryCacheSet(q.cache, q_max_size, query, response, skill_name, now)
    IN  IF ~a_config.use_caching THEN q
        ELSE [q EXCEPT !.cache = cache,
                       !.last = Call("set", query, response, NoEntry,
                                     EvictionLog(q.cache, q_max_size) \o <<"cached">>),
                       !.recency = Touch(q.recency, MakeKey(query), Keys(cache))]

\* the semantic cache after the lookup of _check_caches
AfterSemanticGet(checked) ==
    LET got == checked.similar[1]
    IN  IF checked.similar = <<>>
        THEN [entries |-> s_entries, stats |-> s_stats, last |-> s_last,
              inserted |-> s_inserted]
        ELSE [entries |-> got.entries, stats |-> got.stats,
              last |-> SemCall("get_similar", got.ret, got.log),
              inserted |-> s_inserted]

\* the semantic cache after _cache_response, embedding being what
\* _get_embedding gives
AfterSemanticSet(s, query, response, embedding, skill_name) ==
    IF ~a_config.use_semantic_cache \/ embedding = NoEmbedding THEN s
    ELSE [s EXCEPT !.entries = SemanticCacheSet(s.entries, s_max_size, query, response,
                                                embedding, skill_name, now,
                                                s.inserted + 1),
                   !.last = SemCall("set", NoEntry, <<"cached">>),
                   !.inserted = @ + 1]

\* the calls _cache_response makes
CacheResponseEvents(embedding) ==
    (IF a_config.use_caching THEN <<"exact_set">> ELSE <<>>)
        \o (IF a_config.use_semantic_cache THEN <<"embedding">> ELSE <<>>)
        \o (IF a_config.use_semantic_cache
            THEN IF embedding # NoEmbedding THEN <<"semantic_set">> ELSE <<"no_embedding">>
            ELSE <<>>)

\* the exact cache and the histories kept of it, after a call of chat
SetExactCache(q) ==
    /\ q_cache' = q.cache
    /\ q_stats' = q.stats
    /\ q_last' = q.last
    /\ q_calls' = q.calls
    /\ q_recency' = q.recency

\* the semantic cache after a call of chat
SetSemanticCache(s) ==
    /\ s_entries' = s.entries
    /\ s_stats' = s.stats
    /\ s_last' = s.last
    /\ s_inserted' = s.inserted

\* chat from "if cached_response:" on, the cached response being taken
Replay(turn, checked, q, s) ==
    /\ SetExactCache(q)
    /\ SetSemanticCache(s)
    /\ h_history' = h_history \o << Message("user", <<turn.user_message>>, <<>>, ""),
                                    Message("assistant", checked.ret, <<>>, "") >>
    /\ h_appended' = h_appended + 2
    /\ h_last' = HistoryCall("append", <<>>, 0, <<>>)
    /\ a_last' = AgentCall("chat", turn.user_message, turn.max_tool_calls, checked.ret,
                           FALSE, checked.events, <<>>)
    /\ UNCHANGED <<a_current_skill, r_last, t_last>>

\* the transcript after the query is routed and the system prompt updated
Prompted(current_skill) ==
    IF ~a_config.use_skill_routing THEN h_history
    ELSE IF current_skill # NoMatch
    THEN UpdateSystemPrompt(h_history,
                            EnhancedPrompt(current_skill[1].skill_name, BasePrompt))
    ELSE UpdateSystemPrompt(h_history, BasePrompt)

\* chat from the prune on, the loop having ended without an exception
Finish(turn, q, s, current_skill, run) ==
    LET final_response == IF run.final_response = NoContent THEN MaxToolCallsResponse
                          ELSE run.final_response[1]
        skill_name == IF current_skill # NoMatch THEN current_skill[1].skill_name
                      ELSE None
    IN  \E pruned \in {Prune(run.history, ChatMaxMessages)},
           q_set \in {AfterExactSet(q, turn.user_message, final_response, skill_name)},
           s_set \in {AfterSemanticSet(s, turn.user_message, final_response,
                                       turn.store_embedding, skill_name)} :
            /\ SetExactCache(q_set)
            /\ SetSemanticCache(s_set)
            /\ h_history' = pruned
            /\ h_last' = HistoryCall("prune", run.history, ChatMaxMessages, pruned)
            /\ a_last' = AgentCall("chat", turn.user_message, turn.max_tool_calls,
                                   <<final_response>>, FALSE,
                                   run.events \o <<"prune">>
                                       \o CacheResponseEvents(turn.store_embedding),
                                   run.sent)

\* chat from the routing on, no cached response being taken
Respond(turn, checked, q, s) ==
    \E current_skill \in {IF a_config.use_skill_routing
                          THEN RouteResult(r_skills, turn.user_message)
                          ELSE a_current_skill} :
    \E asked \in {Append(Prompted(current_skill),
                         Message("user", <<turn.user_message>>, <<>>, ""))} :
    \E optimized_history \in {Optimize(asked, h_config)} :
    \E run \in {CompletionLoop(
                    Progress(asked, optimized_history,
                             checked.events
                                 \o (IF a_config.use_skill_routing THEN <<"route">>
                                     ELSE <<>>)
                                 \o <<"optimize">>,
                             t_last),
                    turn.completions, 0, turn.max_tool_calls)} :
        /\ a_current_skill' = current_skill
        /\ r_last' = IF a_config.use_skill_routing
                     THEN RouterCall("route", turn.user_message, None, current_skill)
                     ELSE r_last
        /\ h_appended' = h_appended + Len(run.history) - Len(h_history)
        /\ t_last' = run.truncator
        /\ IF run.raised
           THEN /\ SetExactCache(q)
                /\ SetSemanticCache(s)
                /\ h_history' = run.history
                /\ h_last' = HistoryCall("optimize", asked, 0, optimized_history)
                /\ a_last' = AgentCall("chat", turn.user_message, turn.max_tool_calls,
                                       NoContent, TRUE, run.events, run.sent)
           ELSE Finish(turn, q, s, current_skill, run)

\* chat(user_message, max_tool_calls) of a turn: the message, the two results
\* of _get_embedding, and the responses of the model service
Chat(turn) ==
    /\ a_stats.total_requests < MaxChats
    /\ \E checked \in {CheckCaches(turn.user_message, turn.lookup_embedding)} :
       \E q \in {AfterExactGet(checked, turn.user_message)},
          s \in {AfterSemanticGet(checked)} :
            /\ a_stats' = [total_requests |-> a_stats.total_requests + 1,
                           cache_hits |-> a_stats.cache_hits + checked.cache_hits]
            /\ IF Truthy(checked.ret) THEN Replay(turn, checked, q, s)
               ELSE Respond(turn, checked, q, s)
    /\ UNCHANGED <<now, q_max_size, s_max_size, s_running, r_skills, r_changes, h_config, a_config>>

\* STIHLAnalyticsAgent.__init__(use_skill_routing, use_caching, use_semantic_cache)
AgentInit(use_skill_routing, use_caching, use_semantic_cache) ==
    /\ a_config = [use_skill_routing |-> use_skill_routing, use_caching |-> use_caching,
                   use_semantic_cache |-> use_semantic_cache]
    /\ a_current_skill = NoMatch
    /\ a_stats = [total_requests |-> 0, cache_hits |-> 0]
    /\ a_last = AgentCall("init", <<>>, 0, NoContent, FALSE, <<>>, <<>>)

\* the messages of the users: "hello", "thanks" and "sales forecast"
Hello == <<"h", "e", "l", "l", "o">>

Thanks == <<"t", "h", "a", "n", "k", "s">>

SalesForecast == <<"s", "a", "l", "e", "s", " ", "f", "o", "r", "e", "c", "a", "s", "t">>

\* the embedding service: "hello" and "thanks" lie within the similarity
\* threshold of each other, "sales forecast" lies opposite to "hello"
EmbeddingOf(text) ==
    IF text = Hello THEN <<1, 0>> ELSE IF text = Thanks THEN <<3, 1>> ELSE <<-1, 0>>

\* a tool call that succeeds with a short JSON document
ShortCall(id) ==
    ToolCall(id, <<"q", "u", "e", "r", "y", "_", "s", "a", "l", "e", "s", "_", "d", "a", "t", "a">>, TRUE, FALSE, StrValue(JsonDumps(Product(0, <<>>))))

\* a tool call that succeeds with a text beyond MAX_RESULT_CHARS
LongCall(id) ==
    ToolCall(id, <<"q", "u", "e", "r", "y", "_", "s", "a", "l", "e", "s", "_", "d", "a", "t", "a">>, TRUE, FALSE, StrValue(Text(MAX_RESULT_CHARS + 100)))

\* a tool call whose function raises
FailingCall(id) == ToolCall(id, <<"q", "u", "e", "r", "y", "_", "s", "a", "l", "e", "s", "_", "d", "a", "t", "a">>, TRUE, TRUE, StrValue(ToolFailure))

\* a tool call of a function that is not in TOOL_FUNCTIONS
UnknownCall(id) == ToolCall(id, NoSuchTool, TRUE, FALSE, StrValue(<<>>))

\* a tool call whose arguments are not a JSON document
MalformedCall(id) == ToolCall(id, <<"q", "u", "e", "r", "y", "_", "s", "a", "l", "e", "s", "_", "d", "a", "t", "a">>, FALSE, FALSE, StrValue(<<>>))

\* a turn of chat: the message, whether the embedding service answers the
\* fetch of _check_caches and that of _cache_response, the responses of the
\* model service, max_tool_calls
Turn(user_message, lookup_ok, store_ok, completions, max_tool_calls) ==
    [user_message |-> user_message,
     lookup_embedding |-> IF lookup_ok THEN EmbeddingOf(user_message) ELSE NoEmbedding,
     store_embedding |-> IF store_ok THEN EmbeddingOf(user_message) ELSE NoEmbedding,
     completions |-> completions, max_tool_calls |-> max_tool_calls]

\* the turns of the conversations: answers that are a text, "" and None; tool
\* calls of every outcome, followed by an answer or going on until
\* max_tool_calls; the embedding service failing; the model service raising
ChatTurns ==
    { Turn(Hello, TRUE, TRUE, << Answer(<< <<"r", "1">> >>) >>, 1),
      Turn(Hello, TRUE, TRUE, << Answer(<< <<>> >>) >>, 1),
      Turn(Hello, FALSE, TRUE, << Answer(NoContent) >>, 1),
      Turn(Thanks, TRUE, TRUE, << Answer(<< <<"r", "2">> >>) >>, 1),
      Turn(Thanks, FALSE, FALSE, << Answer(<< <<"r", "2">> >>) >>, 1),
      Turn(Thanks, TRUE, TRUE, << Raises >>, 1),
      Turn(SalesForecast, TRUE, TRUE,
           << Calls(<< ShortCall("1") >>), Answer(<< <<"r", "3", "\n", "z">> >>) >>,
           MaxToolCalls),
      Turn(SalesForecast, TRUE, FALSE,
           [i \in 1..MaxToolCalls |->
               Calls(<< UnknownCall("1"), LongCall("2"), FailingCall("3") >>)],
           MaxToolCalls),
      Turn(Hello, TRUE, TRUE, << Calls(<< ShortCall("1"), MalformedCall("2") >>) >>,
           MaxToolCalls) }

\* the agents constructed: every optimization in use, and each one switched off
AgentConfigs ==
    { <<TRUE, TRUE, TRUE>>, <<FALSE, TRUE, TRUE>>, <<TRUE, FALSE, TRUE>>,
      <<TRUE, TRUE, FALSE>> }

----------------------------------------------------------------------------
(* Specifications *)

\* QueryCache.__init__(max_size, ttl_seconds)
QueryCacheInit(max_size) ==
    /\ q_max_size = max_size
    /\ q_cache = <<>>
    /\ q_stats = [hits |-> 0, misses |-> 0]
    /\ q_last = Call("init", <<>>, None, NoEntry, <<>>)
    /\ q_calls = [entry |-> 0, none |-> 0]
    /\ q_recency = <<>>

\* SemanticCache.__init__(similarity_threshold, max_size, ttl_seconds)
SemanticCacheInit(max_size) ==
    /\ s_max_size = max_size
    /\ s_entries = <<>>
    /\ s_stats = [hits |-> 0, misses |-> 0, similarity_scores |-> <<>>]
    /\ s_last = SemCall("init", NoEntry, <<>>)
    /\ s_inserted = 0
    /\ s_running = NoThreads(TRUE)

\* the exact cache in use, built with any capacity from 1 to MaxCapacity
Init ==
    /\ now = 0
    /\ \E max_size \in 1..MaxCapacity : QueryCacheInit(max_size)
    /\ SemanticCacheInit(MaxCapacity)
    /\ RouterInit
    /\ HistoryInit(MaxTurns, MaxTurns, ToolResultTokens)
    /\ TruncatorInit
    /\ AgentInit(TRUE, TRUE, TRUE)

Next ==
    \/ \E query \in Queries : Get(query)
    \/ \E r \in Requests : Set(r.query, r.response, r.skill_name)
    \/ \E query \in Queries : Invalidate(query)
    \/ Clear
    \/ Tick

Spec == Init /\ [][Next]_vars

\* the exact cache built with room for three entries and used with four
\* distinct keys, the clock standing still
LruCapacity == 3

LruQueries == { <<"a">>, <<"b">>, <<"c">>, <<"d">> }

LruRequests ==
    { [query |-> q, response |-> "r1", skill_name |-> None] : q \in LruQueries }

LruInit ==
    /\ now = 0
    /\ QueryCacheInit(LruCapacity)
    /\ SemanticCacheInit(MaxCapacity)
    /\ RouterInit
    /\ HistoryInit(MaxTurns, MaxTurns, ToolResultTokens)
    /\ TruncatorInit
    /\ AgentInit(TRUE, TRUE, TRUE)

LruNext ==
    \/ \E query \in LruQueries : Get(query)
    \/ \E r \in LruRequests : Set(r.query, r.response, r.skill_name)

LruSpec == LruInit /\ [][LruNext]_vars

\* the semantic cache in use, built with any capacity from 1 to MaxCapacity
SemInit ==
    /\ now = 0
    /\ QueryCacheInit(MaxCapacity)
    /\ \E max_size \in 1..MaxCapacity : SemanticCacheInit(max_size)
    /\ RouterInit
    /\ HistoryInit(MaxTurns, MaxTurns, ToolResultTokens)
    /\ TruncatorInit
    /\ AgentInit(TRUE, TRUE, TRUE)

SemNext ==
    \/ \E r \in SemRequests : GetSimilar(r.query, r.embedding)
    \/ \E r \in SemCached : SemSet(r.query, r.response, r.embedding, r.skill_name)
    \/ SemClear
    \/ Tick

SemSpec == SemInit /\ [][SemNext]_vars

\* one semantic cache shared by threads, their calls interleaved, or let in
\* one at a time by the caller
RaceSpecInit ==
    /\ now = 0
    /\ QueryCacheInit(MaxCapacity)
    /\ \E max_size \in 1..MaxCapacity, serialized \in BOOLEAN :
          /\ s_max_size = max_size
          /\ s_entries = <<>>
          /\ s_stats = [hits |-> 0, misses |-> 0, similarity_scores |-> <<>>]
          /\ s_last = SemCall("init", NoEntry, <<>>)
          /\ s_inserted = 0
          /\ s_running = NoThreads(serialized)
    /\ RouterInit
    /\ HistoryInit(MaxTurns, MaxTurns, ToolResultTokens)
    /\ TruncatorInit
    /\ AgentInit(TRUE, TRUE, TRUE)

\* the requests of the threads: lookups of "a" and of "e", which has no
\* embedding; answers cached for "a" and for "b"
RaceLookups == { r \in SemRequests : r.query \in { <<"a">>, <<"e">> } }

RaceCached == { r \in SemRequests : r.query \in { <<"a">>, <<"b">> } }

RaceNext ==
    \/ \E r \in RaceLookups : GetBegin(r.query, r.embedding)
    \/ GetScanEntry
    \/ GetScanEnd
    \/ GetAssign
    \/ \E r \in RaceCached : SetBegin(r)
    \/ SetPop
    \/ SetAppend
    \/ Tick

RaceSpec == RaceSpecInit /\ [][RaceNext]_vars

\* the router in use: queries routed, skills unregistered and registered again
RouterSpecInit ==
    /\ now = 0
    /\ QueryCacheInit(MaxCapacity)
    /\ SemanticCacheInit(MaxCapacity)
    /\ RouterInit
    /\ HistoryInit(MaxTurns, MaxTurns, ToolResultTokens)
    /\ TruncatorInit
    /\ AgentInit(TRUE, TRUE, TRUE)

RouterNext ==
    \/ \E name \in KnownNames : Register(name)
    \/ \E name \in KnownNames : Unregister(name)
    \/ \E query \in RouterQueries : Route(query)
    \/ \E query \in RouterQueries, name \in FallbackNames : RouteWithFallback(query, name)

RouterSpec == RouterSpecInit /\ [][RouterNext]_vars

\* a conversation growing, optimized before it is sent and pruned after
HistorySpecInit ==
    /\ now = 0
    /\ QueryCacheInit(MaxCapacity)
    /\ SemanticCacheInit(MaxCapacity)
    /\ RouterInit
    /\ \E max_turns \in 1..MaxTurns, summarize_after \in 1..MaxTurns :
          HistoryInit(max_turns, summarize_after, ToolResultTokens)
    /\ TruncatorInit
    /\ AgentInit(TRUE, TRUE, TRUE)

HistoryNext ==
    \/ AppendUser
    \/ AppendLongUser
    \/ AppendAssistant
    \/ \E result \in ToolResults : AppendToolRound(result)
    \/ OptimizeCall
    \/ \E max_messages \in 1..MaxPrune : PruneCall(max_messages)

HistorySpec == HistorySpecInit /\ [][HistoryNext]_vars

\* the transcripts prune is given grow from: the one chat starts with, and one
\* of a caller that keeps no system prompt
PruneStarts == { <<SystemMessage>>, <<UserMessage(0)>> }

\* prune called on transcripts with and without a leading system message
PruneSpecInit ==
    /\ now = 0
    /\ QueryCacheInit(MaxCapacity)
    /\ SemanticCacheInit(MaxCapacity)
    /\ RouterInit
    /\ h_config = [max_turns |-> MaxTurns, summarize_after |-> MaxTurns,
                   max_tool_result_tokens |-> ToolResultTokens]
    /\ h_history \in PruneStarts
    /\ h_appended = 0
    /\ h_last = HistoryCall("init", <<>>, 0, <<>>)
    /\ TruncatorInit
    /\ AgentInit(TRUE, TRUE, TRUE)

PruneNext ==
    \/ AppendUser
    \/ AppendAssistant
    \/ \E result \in ToolResults : AppendToolRound(result)
    \/ \E max_messages \in 1..MaxPrune : PruneCall(max_messages)

PruneSpec == PruneSpecInit /\ [][PruneNext]_vars

\* truncate_tool_result called on tool results of every shape, with budgets
\* from the smallest to the default
TruncatorSpecInit ==
    /\ now = 0
    /\ QueryCacheInit(MaxCapacity)
    /\ SemanticCacheInit(MaxCapacity)
    /\ RouterInit
    /\ HistoryInit(MaxTurns, MaxTurns, ToolResultTokens)
    /\ \E result \in TruncatorResults, max_chars \in MaxCharsChoices,
          preserve_keys \in PreserveKeysChoices :
            TruncatorCalled(result, max_chars, preserve_keys)
    /\ AgentInit(TRUE, TRUE, TRUE)

TruncatorNext == TruncateToolResultCall

TruncatorSpec == TruncatorSpecInit /\ [][TruncatorNext]_vars

\* the agent in conversation: turns of chat, the clock advancing between them
ChatSpecInit ==
    /\ now = 0
    /\ QueryCacheInit(MaxCapacity)
    /\ SemanticCacheInit(MaxCapacity)
    /\ RouterInit
    /\ HistoryInit(1, 1, AgentToolResultTokens)
    /\ TruncatorInit
    /\ \E config \in AgentConfigs : AgentInit(config[1], config[2], config[3])

ChatNext ==
    \/ \E turn \in ChatTurns : Chat(turn)
    \/ Tick

ChatSpec == ChatSpecInit /\ [][ChatNext]_vars

----------------------------------------------------------------------------
(* Claims about QueryCache *)

AllQueries == Queries \cup LruQueries

AllRequests == Requests \cup LruRequests

\* C1: a QueryCache built with max_size >= 1 never stores more than max_size
\* entries, whatever get, set, invalidate and clear calls were made.
C1_SizeWithinMax == Len(q_cache) <= q_max_size

\* a set that evicted an entry and left the cache full
C1_Witness ==
    /\ q_last.op = "set"
    /\ q_last.log = <<"evicted", "cached">>
    /\ Len(q_cache) = q_max_size
    /\ q_max_size = MaxCapacity

\* C2: a set of a new key into a full cache removes exactly one entry, the one
\* least recently set or returned by get, and stores the new key.
C2_EvictsLeastRecentlyUsed ==
    [][\A r \in AllRequests :
          ( /\ Set(r.query, r.response, r.skill_name)
            /\ MakeKey(r.query) \notin Keys(q_cache)
            /\ Len(q_cache) = q_max_size )
          => /\ Len(q_cache') = q_max_size
             /\ Keys(q_cache') =
                   (Keys(q_cache) \ {Head(q_recency)}) \cup {MakeKey(r.query)}
      ]_vars

\* C3: get(q) right after set(q, r), before ttl_seconds elapsed, returns an
\* entry with response r and hit_count 1; every get that returns an entry
\* returns the stored entry with its hit_count raised by exactly 1.
C3_SetThenGet ==
    [][\A query \in AllQueries :
          LET key == MakeKey(query) IN
          Get(query) =>
             /\ (q_last.op = "set" /\ MakeKey(q_last.query) = key)
                   => /\ key \in Keys(q_cache)
                      /\ now - Lookup(q_cache, key).created_at <= TtlTicks
                            => /\ q_last'.ret # NoEntry
                               /\ q_last'.ret[1].response = q_last.response
                               /\ q_last'.ret[1].hit_count = 1
             /\ q_last'.ret # NoEntry
                   => /\ key \in Keys(q_cache)
                      /\ q_last'.ret[1] =
                            [Lookup(q_cache, key) EXCEPT !.hit_count = @ + 1]
                      /\ Lookup(q_cache', key) = q_last'.ret[1]
      ]_vars

\* a second hit on an entry set under another spelling of the query
C3_Witness ==
    /\ q_last.op = "get"
    /\ q_last.ret # NoEntry
    /\ q_last.ret[1].hit_count = 2
    /\ q_last.ret[1].query # q_last.query

\* C4: a get(q) made when the stored entry is older than ttl_seconds returns
\* none, removes the entry and counts a miss, not a hit; a get of a key that is
\* not stored is a miss and stores nothing, and only set stores a key, so the
\* next get(q) without a set in between is a miss again.
C4_ExpiryOnRead ==
    [][ /\ \A query \in AllQueries :
             LET key == MakeKey(query) IN
             Get(query) =>
                /\ (key \in Keys(q_cache)
                      /\ now - Lookup(q_cache, key).created_at > TtlTicks)
                      => /\ q_last'.ret = NoEntry
                         /\ key \notin Keys(q_cache')
                         /\ q_stats'.misses = q_stats.misses + 1
                         /\ q_stats'.hits = q_stats.hits
                /\ key \notin Keys(q_cache)
                      => /\ q_last'.ret = NoEntry
                         /\ key \notin Keys(q_cache')
                /\ (q_last.op = "get" /\ q_last.ret = NoEntry
                      /\ MakeKey(q_last.query) = key)
                      => q_last'.ret = NoEntry
        /\ (Keys(q_cache') \ Keys(q_cache) # {}) => q_last'.op = "set"
      ]_vars

\* a get that found its entry expired and removed it, other entries staying
C4_Witness ==
    /\ q_last.op = "get"
    /\ q_last.log = <<"expired">>
    /\ q_last.ret = NoEntry
    /\ MakeKey(q_last.query) \notin Keys(q_cache)
    /\ q_cache # <<>>

\* C5: an entry returned by get is at most ttl_seconds old at the time of the call.
C5_NeverServesStale ==
    [][\A query \in AllQueries :
          (Get(query) /\ q_last'.ret # NoEntry)
             => now - q_last'.ret[1].created_at <= TtlTicks
      ]_vars

\* a hit served while another stored entry is past its ttl
C5_Witness ==
    /\ q_last.op = "get"
    /\ q_last.ret # NoEntry
    /\ q_last.ret[1].created_at = now
    /\ \E i \in 1..Len(q_cache) : now - q_cache[i].created_at > TtlTicks

\* C6: set(q, r2) of a stored key replaces its response by r2 and makes the key
\* the most recently used entry, the last in eviction order.
C6_OverwriteResetsRecency ==
    [][\A r \in AllRequests :
          LET key == MakeKey(r.query) IN
          (Set(r.query, r.response, r.skill_name) /\ key \in Keys(q_cache))
             => /\ key \in Keys(q_cache')
                /\ Lookup(q_cache', key).response = r.response
                /\ q_cache'[Len(q_cache')].key = key
      ]_vars

\* hits and misses count the get calls by what they returned, and the rate
\* reported is hits / (hits + misses) to the precision of its format, 0 with no get
StatsMatchCalls ==
    LET total == q_calls.entry + q_calls.none
        rate == GetStats(q_cache, q_stats, q_max_size).hit_rate
    IN  /\ q_stats.hits = q_calls.entry
        /\ q_stats.misses = q_calls.none
        /\ total = 0 => rate = 0
        /\ total > 0 => 2 * Abs(rate * total - 1000 * q_calls.entry) <= total

\* C7: the hit counter is the number of get calls that returned an entry and
\* the miss counter the number that returned none; set, invalidate and clear
\* change neither; the hit rate reported is hits / (hits + misses), 0 with no get.
C7_Statistics ==
    /\ StatsMatchCalls
    /\ [][ /\ StatsMatchCalls'
           /\ q_last'.op \in {"set", "invalidate", "clear"} => q_stats' = q_stats
       ]_vars

\* a hit and a miss counted, then a call that is not a get
C7_Witness ==
    /\ q_stats.hits = 1
    /\ q_stats.misses = 1
    /\ q_last.op \in {"set", "invalidate", "clear"}

\* the entries of the cache stored under other keys than key
OtherEntries(cache, key) == { cache[i] : i \in { j \in 1..Len(cache) : cache[j].key # key } }

\* C38: set(q, r) of a stored key leaves every entry stored under another key
\* in the cache and leaves the number of entries as it was, also when the
\* cache holds max_size entries
C38_OverwriteEvictsNothing ==
    [][\A r \in AllRequests :
          LET key == MakeKey(r.query) IN
          (Set(r.query, r.response, r.skill_name) /\ key \in Keys(q_cache))
             => /\ OtherEntries(q_cache, key) \subseteq OtherEntries(q_cache', key)
                /\ Len(q_cache') = Len(q_cache)
      ]_vars

----------------------------------------------------------------------------
(* Claims about SemanticCache *)

\* C8: a SemanticCache built with max_size >= 1 never stores more than
\* max_size entries, whatever get_similar, set and clear calls were made.
C8_SemSizeWithinMax == Len(s_entries) <= s_max_size

\* a set into a full store: more inserted than fit, with no expiry and the store full
C8_Witness ==
    /\ s_last.op = "set"
    /\ s_max_size = MaxCapacity
    /\ Len(s_entries) = s_max_size
    /\ s_inserted = s_max_size + 1
    /\ s_entries[1].seq = 2
    /\ now = 0

\* the entries of the store are in the order they were inserted
InInsertionOrder(entries) ==
    \A i, j \in 1..Len(entries) : i < j => entries[i].seq < entries[j].seq

\* C9: a set into a full SemanticCache removes the entry inserted earliest among
\* those stored and keeps the others in their order, the new entry last; hits
\* of get_similar never reorder the store, which stays in insertion order.
C9_FifoEviction ==
    /\ InInsertionOrder(s_entries)
    /\ [][ /\ InInsertionOrder(s_entries')
           /\ \A r \in SemRequests :
                 ( /\ Len(s_entries) = s_max_size
                   /\ s_inserted' # s_inserted
                   /\ SemSet(r.query, r.response, r.embedding, r.skill_name) )
                 => \E k \in 1..Len(s_entries) :
                       /\ \A j \in 1..Len(s_entries) : s_entries[k].seq <= s_entries[j].seq
                       /\ Len(s_entries') = Len(s_entries)
                       /\ \A j \in 1..(Len(s_entries) - 1) :
                             s_entries'[j] = s_entries[IF j < k THEN j ELSE j + 1]
                       /\ s_entries'[Len(s_entries')].seq = s_inserted'
                       /\ s_entries'[Len(s_entries')].query = r.query
       ]_vars

\* a set that evicted after get_similar returned the most recently inserted
\* entry: the entry evicted is the one inserted first, the entry returned stays
C9_Witness ==
    /\ s_last.op = "set"
    /\ s_stats.hits >= 1
    /\ s_max_size = MaxCapacity
    /\ Len(s_entries) = s_max_size
    /\ s_inserted = s_max_size + 1
    /\ s_entries[1].seq = 2
    /\ now = 0

\* the stored entries not older than ttl_seconds, by position
ValidPositions == { i \in 1..Len(s_entries) : now - s_entries[i].created_at <= TtlTicks }

StoredSeqs(entries) == { entries[i].seq : i \in 1..Len(entries) }

\* the claim of C11 as worded: after every get_similar call, whatever its
\* arguments, the store holds no entry older than ttl_seconds at call time
C11_ExpiryOnEveryLookup ==
    [][\A r \in SemRequests :
          (s_last'.op = "get_similar" /\ GetSimilar(r.query, r.embedding))
             => \A i \in 1..Len(s_entries') :
                   now - s_entries'[i].created_at <= TtlTicks
      ]_vars

\* C11: on every get_similar call with a non-empty query embedding, every
\* stored entry older than ttl_seconds is removed from the store and the
\* others stay, in their order; an entry returned as a hit is not older than
\* ttl_seconds; an entry removed never comes back (only set adds entries).
\* A call with an empty embedding is a miss that leaves the store as it is.
C11_ExpiryOnLookup ==
    [][ /\ \A r \in SemRequests :
             (s_last'.op = "get_similar" /\ GetSimilar(r.query, r.embedding))
                => /\ r.embedding # <<>>
                      => /\ \A i \in 1..Len(s_entries') :
                               now - s_entries'[i].created_at <= TtlTicks
                         /\ StoredSeqs(s_entries') =
                               { s_entries[i].seq : i \in ValidPositions }
                         /\ InInsertionOrder(s_entries')
                   /\ r.embedding = <<>>
                      => s_entries' = s_entries /\ s_last'.ret = NoEntry
                   /\ s_last'.ret # NoEntry
                      => now - s_last'.ret[1].created_at <= TtlTicks
        /\ StoredSeqs(s_entries') \subseteq StoredSeqs(s_entries) \cup {s_inserted'}
        /\ s_inserted' = s_inserted => StoredSeqs(s_entries') \subseteq StoredSeqs(s_entries)
      ]_vars

\* a hit on the second entry inserted, served when the first, one tick older,
\* was past its ttl and is gone from the store
C11_Witness ==
    /\ s_last.op = "get_similar"
    /\ s_last.ret # NoEntry
    /\ s_max_size = MaxCapacity
    /\ s_inserted = 2
    /\ Len(s_entries) = 1
    /\ s_entries[1].seq = 2
    /\ s_entries[1].created_at = now - TtlTicks
    /\ now = MaxTime

\* the position in the store of the k-th entry that is not older than ttl_seconds
NthValid(k) ==
    CHOOSE i \in ValidPositions : Cardinality({ j \in ValidPositions : j < i }) = k - 1

\* this step is a get_similar call that hits
SemHitStep == s_last'.op = "get_similar" /\ s_stats'.hits = s_stats.hits + 1

\* C24: a get_similar call that hits leaves every non-expired stored entry as
\* it was (query, response, embedding, creation time, hit counter) and in its
\* place among the others, and returns an entry whose hit counter is the
\* stored counter plus one.
C24_HitLeavesStore ==
    [][SemHitStep =>
          /\ Len(s_entries') = Cardinality(ValidPositions)
          /\ \A k \in 1..Len(s_entries') : s_entries'[k] = s_entries[NthValid(k)]
          /\ \E i \in ValidPositions :
                /\ s_last'.ret[1].query = s_entries[i].query
                /\ s_last'.ret[1].response = s_entries[i].response
                /\ s_last'.ret[1].created_at = s_entries[i].created_at
                /\ s_last'.ret[1].hit_count = s_entries[i].hit_count + 1
      ]_vars

\* a second hit on the second of two stored entries: the entry returned counts
\* one hit, the entries stored count none
C24_Witness ==
    /\ s_last.op = "get_similar"
    /\ s_last.ret # NoEntry
    /\ s_stats.hits = 2
    /\ Len(s_entries) = 2
    /\ s_last.ret[1].query = s_entries[2].query
    /\ s_last.ret[1].query # s_entries[1].query
    /\ s_last.ret[1].hit_count = 1
    /\ \A i \in 1..Len(s_entries) : s_entries[i].hit_count = 0

\* the window new is the window old with one value recorded after the others,
\* the oldest value dropped when more than ScoreWindow are held
RecordedAfter(old, new) ==
    /\ Len(new) = Min(Len(old) + 1, ScoreWindow)
    /\ \A k \in 1..(Len(new) - 1) : new[Len(new) - k] = old[Len(old) - k + 1]

\* C25: the list of best similarities holds at most 100 values, the ones
\* recorded last in the order of the calls; a get_similar call that misses
\* while an entry that is not expired is stored records the best similarity
\* of that call.
C25_SimilarityWindow ==
    /\ Len(s_stats.similarity_scores) <= ScoreWindow
    /\ [][\A r \in SemRequests :
            (s_last'.op = "get_similar" /\ GetSimilar(r.query, r.embedding)) =>
               LET sim(i) == CosineSimilarity(r.embedding, s_entries[i].embedding)
                   old == s_stats.similarity_scores
                   new == s_stats'.similarity_scores
               IN  /\ new = old \/ RecordedAfter(old, new)
                   /\ ( /\ s_last'.ret = NoEntry
                        /\ r.embedding # <<>>
                        /\ ValidPositions # {} )
                      => /\ RecordedAfter(old, new)
                         /\ \E i \in ValidPositions :
                               /\ \A j \in ValidPositions : ~SimGT(sim(j), sim(i))
                               /\ new[Len(new)] = sim(i)
        ]_vars

\* an entry that set appended, that set has not popped and that has not
\* expired is not in the store: lookups no longer see it
LostEntries ==
    { c \in s_running.committed :
         /\ now - c.created_at <= TtlTicks
         /\ \A i \in 1..Len(s_entries) : s_entries[i].seq # c.seq }

\* C33: with the calls on a cache let in one at a time, every entry a
\* completed set appended stays in the store until set pops it or it expires;
\* with get_similar and set interleaved the store replacement of get_similar
\* can drop such an entry (the witness).
C33_SerializedKeepsCompletedSets ==
    s_running.serialized => LostEntries = {}

\* calls interleaved, none in progress any more: a set completed after the
\* scan of a get_similar began, that get_similar replaced the store, and the
\* entry of the set, not expired, is not in it
C33_Witness ==
    /\ ~s_running.serialized
    /\ s_running.get.pc = "idle"
    /\ s_running.set.pc = "idle"
    /\ s_last.op = "get_similar"
    /\ \E c \in LostEntries : c.seq = s_inserted

----------------------------------------------------------------------------
(* Claims about the skill router *)

\* the names registered
Registered == { r_skills[i] : i \in 1..Len(r_skills) }

\* the rules of a skill, as written
TriggerRules(name) ==
    { SkillOf(name).triggers[i].src : i \in 1..Len(SkillOf(name).triggers) }

\* some rule of the skill is found in the lowered query, for the queries routed
TriggerFires ==
    [name \in KnownNames |-> [query \in RouterQueries |->
        \E i \in 1..Len(SkillOf(name).triggers) :
            SearchIgnoreCase(SkillOf(name).triggers[i], StrLower(query))]]

\* the registered skills whose trigger fires on the query
Fired(query) == { name \in Registered : TriggerFires[name][query] }

\* the pair (confidence, priority) of a skill's match of the query
Rank(name, query) == <<MatchesOf[name][query][1].confidence, SkillOf(name).priority>>

\* C12: route returns none iff no registered skill's trigger fires on the
\* query; otherwise it returns the match of a registered skill whose trigger
\* fires and whose pair (confidence, priority) no other such skill's exceeds,
\* confidence compared first and priority second.
C12_RouterSelection ==
    r_last.op = "route" =>
       /\ r_last.ret = NoMatch <=> Fired(r_last.query) = {}
       /\ r_last.ret # NoMatch =>
             /\ r_last.ret[1].skill_name \in Fired(r_last.query)
             /\ r_last.ret = MatchesOf[r_last.ret[1].skill_name][r_last.query]
             /\ \A name \in Fired(r_last.query) :
                   ~TupleLess(Rank(r_last.ret[1].skill_name, r_last.query),
                              Rank(name, r_last.query))

\* a route that returned a skill over one of higher priority and lower
\* confidence whose trigger fired too
C12_Witness ==
    /\ r_last.op = "route"
    /\ r_last.ret # NoMatch
    /\ \E name \in Fired(r_last.query) :
          /\ SkillOf(name).priority > SkillOf(r_last.ret[1].skill_name).priority
          /\ MatchesOf[name][r_last.query][1].confidence < r_last.ret[1].confidence

\* C13: route returns none or a match whose confidence lies in [0.0, 1.0],
\* whose skill_name is a registered skill, whose matched_pattern is one of
\* that skill's trigger rules and whose tool list is that skill's tool list.
C13_RouterWellFormed ==
    (r_last.op = "route" /\ r_last.ret # NoMatch) =>
       LET match == r_last.ret[1] IN
       /\ match.confidence >= 0
       /\ match.confidence <= MaxConfidence
       /\ match.skill_name \in Registered
       /\ match.matched_pattern # NoPattern
       /\ match.matched_pattern[1] \in TriggerRules(match.skill_name)
       /\ match.tools_available = SkillOf(match.skill_name).tools

\* a route made when the skill that outranks the others on the query is not
\* registered: the match returned is of a skill that is
C13_Witness ==
    /\ r_last.op = "route"
    /\ r_last.ret # NoMatch
    /\ \E name \in SkillNames \ Registered :
          /\ TriggerFires[name][r_last.query]
          /\ TupleLess(Rank(r_last.ret[1].skill_name, r_last.query),
                       Rank(name, r_last.query))

\* the query contains the word replenish, restock or resupply, for the queries routed
HasReplenishWord ==
    [query \in RouterQueries |-> Search(ReplenishKeyword, StrLower(query))]

\* C14: with the default skills registered, a query that triggers both the
\* replenishment skill and the product skill and contains the word replenish,
\* restock or resupply is routed to replenishment_coordinator with confidence
\* 0.95, the product skill scoring at most 0.80 on it.
C14_ReplenishmentOutranksProduct ==
    ( /\ r_last.op = "route"
      /\ Registered = SkillNames
      /\ TriggerFires["replenishment_coordinator"][r_last.query]
      /\ TriggerFires["product_expert"][r_last.query]
      /\ HasReplenishWord[r_last.query] )
    => /\ r_last.ret # NoMatch
       /\ r_last.ret[1].skill_name = "replenishment_coordinator"
       /\ r_last.ret[1].confidence = KeywordConfidence
       /\ MatchesOf["product_expert"][r_last.query][1].confidence <= 800

\* C15: route_with_fallback returns a match whatever the query and the
\* registry, the fallback skill unregistered included: when no trigger fires,
\* one naming the fallback skill with confidence 0.30 and no matched pattern;
\* when some trigger fires, what route returns.
C15_FallbackTotal ==
    r_last.op = "route_with_fallback" =>
       /\ r_last.ret # NoMatch
       /\ Fired(r_last.query) = {} =>
             /\ r_last.ret[1].skill_name = r_last.name
             /\ r_last.ret[1].confidence = FallbackConfidence
             /\ r_last.ret[1].matched_pattern = NoPattern
       /\ Fired(r_last.query) # {} => r_last.ret = RouteResult(r_skills, r_last.query)

\* a fallback on a skill that was unregistered: no trigger fired, and the
\* match names the skill and carries no tools
C15_Witness ==
    /\ r_last.op = "route_with_fallback"
    /\ Fired(r_last.query) = {}
    /\ r_last.name \notin Registered
    /\ r_last.ret # NoMatch
    /\ r_last.ret[1].skill_name = r_last.name
    /\ r_last.ret[1].tools_available = <<>>

\* the positions of the skill's rules that re.search finds in the lowered query
FiringRules ==
    [name \in KnownNames |-> [query \in RouterQueries |->
        { i \in 1..Len(SkillOf(name).triggers) :
            SearchIgnoreCase(SkillOf(name).triggers[i], StrLower(query)) }]]

\* the least of a non-empty set of positions
Least(S) == CHOOSE i \in S : \A j \in S : i <= j

\* the confidence the skill computes for its rule at position i and the query
RuleConfidence ==
    [name \in KnownNames |-> [query \in RouterQueries |->
        [i \in FiringRules[name][query] |->
            CalculateConfidence(SkillOf(name), SkillOf(name).triggers[i].src,
                                StrLower(query))]]]

\* C26: matches(query) of a skill yields at most one match: none when no rule
\* of the skill fires on the query, otherwise the match whose matched_pattern
\* is the first rule in declared order that fires, with the confidence
\* computed for that rule, whatever the later rules that fire would score.
C26_FirstFiringRule ==
    r_last.op = "route" =>
        \A name \in Registered :
            LET found == MatchesOf[name][r_last.query]
                firing == FiringRules[name][r_last.query]
            IN  /\ Len(found) <= 1
                /\ found = NoMatch <=> firing = {}
                /\ found # NoMatch =>
                     /\ found[1].matched_pattern =
                            <<SkillOf(name).triggers[Least(firing)].src>>
                     /\ found[1].confidence =
                            RuleConfidence[name][r_last.query][Least(firing)]

\* route returned the match of a skill on its first firing rule while a later
\* rule of that skill fires too and would have scored higher
C26_Witness ==
    /\ r_last.op = "route"
    /\ r_last.ret # NoMatch
    /\ LET name == r_last.ret[1].skill_name
           firing == FiringRules[name][r_last.query]
       IN  \E j \in firing :
               /\ j > Least(firing)
               /\ r_last.ret[1].matched_pattern =
                      <<SkillOf(name).triggers[Least(firing)].src>>
               /\ RuleConfidence[name][r_last.query][j] > r_last.ret[1].confidence

\* the registered skills that score with BaseSkill._calculate_confidence
BaseScored == { name \in Registered : SkillOf(name).calculate_confidence = "BaseSkill" }

\* how many of the three boosts the rule at position i of the skill earns on
\* the query: a text longer than 30 characters, two shared tokens, three
Boosts(name, query, i) ==
    LET text == SkillOf(name).triggers[i].src
        shared == Cardinality(Words(StrLower(text)) \cap Words(StrLower(query)))
    IN  (IF Len(text) > 30 THEN 1 ELSE 0)
          + (IF shared >= 2 THEN 1 ELSE 0) + (IF shared >= 3 THEN 1 ELSE 0)

\* the boosts of the first firing rule of each skill on each query routed
BoostsOfMatch ==
    [name \in KnownNames |-> [query \in RouterQueries |->
        IF FiringRules[name][query] = {} THEN 0
        ELSE Boosts(name, query, Least(FiringRules[name][query]))]]

\* the doubles 0.7, 0.7 + 0.1, 0.7 + 0.1 + 0.1 and 0.7 + 0.1 + 0.1 + 0.1 in
\* thousandths: 0.7, 0.7999999999999999, 0.8999999999999999, 0.9999999999999999
DoubleSums == <<700, 799, 899, 999>>

Position(name) == CHOOSE i \in 1..Len(r_skills) : r_skills[i] = name

\* the registered skills firing on the query whose pair (confidence, priority)
\* is that of the skill named
TiedWith(name, query) == { other \in Fired(query) : Rank(other, query) = Rank(name, query) }

\* what the last call returned, if it was route and found a match, is the
\* match of the earliest registered among the skills tied with it
EarliestOfTied ==
    r_last.op = "route" /\ r_last.ret # NoMatch =>
        /\ r_last.ret[1].skill_name \in Fired(r_last.query)
        /\ r_last.ret = MatchesOf[r_last.ret[1].skill_name][r_last.query]
        /\ \A other \in TiedWith(r_last.ret[1].skill_name, r_last.query) :
              Position(r_last.ret[1].skill_name) <= Position(other)

\* C28: among the matching skills of exactly the confidence and the priority
\* of the skill route returns, the returned one is the earliest registered;
\* and route decides by the registry and the query alone: the same query
\* routed again on the same registry yields the same match.
C28_TieBreakByRegistration ==
    [][/\ EarliestOfTied'
       /\ (/\ r_last.op = "route" /\ r_last'.op = "route"
           /\ r_last.query = r_last'.query /\ r_skills' = r_skills)
              => r_last'.ret = r_last.ret]_vars

\* route returned greeter_two while greeter_one, registered after it, matches
\* the query with the same confidence and the same priority
C28_Witness ==
    /\ r_last.op = "route"
    /\ r_last.ret # NoMatch
    /\ r_last.ret[1].skill_name = "greeter_two"
    /\ "greeter_one" \in TiedWith("greeter_two", r_last.query)
    /\ Position("greeter_two") < Position("greeter_one")

----------------------------------------------------------------------------
(* Claims about the conversation history manager *)

\* s begins with the string prefix
StartsWith(s, prefix) ==
    Len(s) >= Len(prefix) /\ SubSeq(s, 1, Len(prefix)) = prefix

\* s ends with the string suffix
EndsWith(s, suffix) ==
    Len(s) >= Len(suffix) /\ SubSeq(s, Len(s) - Len(suffix) + 1, Len(s)) = suffix

\* a synthetic summary message
IsSummary(message) ==
    /\ message.role = "assistant"
    /\ message.tool_calls = <<>>
    /\ message.content # NoContent
    /\ StartsWith(message.content[1], SummaryOpening)
    /\ EndsWith(message.content[1], SummaryClosing)

\* the positions of the user messages of a transcript
UserPositions(history) == { i \in 1..Len(history) : history[i].role = "user" }

\* the positions of the k-th most recent user message (none or one)
KthRecentUser(history, k) ==
    { p \in UserPositions(history) :
         Cardinality({ i \in UserPositions(history) : i >= p }) = k }

\* message out is message m as sent: a tool message with its content within
\* max_tokens, cut and marked when it was not; any other message unchanged
SentAs(out, m, max_tokens) ==
    IF m.role # "tool" THEN out = m
    ELSE /\ out.role = "tool"
         /\ out.tool_call_id = m.tool_call_id
         /\ Len(out.content[1]) <= max_tokens * CharsPerToken
         /\ IF Len(m.content[1]) <= max_tokens * CharsPerToken
            THEN out.content = m.content
            ELSE /\ EndsWith(out.content[1], TruncatedMarker)
                 /\ StartsWith(m.content[1],
                               SubSeq(out.content[1], 1,
                                      Len(out.content[1]) - Len(TruncatedMarker)))

\* optimize returned the system message, one summary, and the messages from
\* the summarize_after-th most recent user message on, as sent
SummarizedShape(history, out, config) ==
    /\ KthRecentUser(history, config.summarize_after) # {}
    /\ LET b == CHOOSE p \in KthRecentUser(history, config.summarize_after) : TRUE
       IN  /\ Len(out) = 2 + (Len(history) - b + 1)
           /\ out[1] = history[1]
           /\ IsSummary(out[2])
           /\ Cardinality({ i \in 1..Len(out) : IsSummary(out[i]) }) = 1
           /\ \A j \in b..Len(history) :
                 SentAs(out[j - b + 3], history[j], config.max_tool_result_tokens)

C17_PruneKeepsSystem ==
    ( /\ h_last.op = "prune"
      /\ h_last.max_messages >= 1
      /\ Len(h_last.history) > h_last.max_messages
      /\ h_last.history[1].role = "system" )
    => /\ Len(h_last.ret) = h_last.max_messages
       /\ h_last.ret[1] = h_last.history[1]
       /\ \A j \in 2..h_last.max_messages :
             h_last.ret[j] =
                h_last.history[Len(h_last.history) - h_last.max_messages + j]

C30_RecentMessagesShortened ==
    ( /\ h_last.op = "optimize"
      /\ CountTurns(h_last.history) > h_config.max_turns )
    => /\ \A i \in 1..Len(h_last.ret) :
             /\ h_last.ret[i].role = "user" =>
                   Len(ContentOf(h_last.ret[i])) <= UserSummaryTokens * CharsPerToken
             /\ ( /\ h_last.ret[i].role = "assistant"
                  /\ h_last.ret[i].tool_calls = <<>>
                  /\ ~IsSummary(h_last.ret[i]) ) =>
                   Len(ContentOf(h_last.ret[i])) <= AssistantSummaryTokens * CharsPerToken
       /\ \A j \in RecentStart(h_last.history, h_config.summarize_after)
                      ..Len(h_last.history) :
             h_last.history[j].tool_calls # <<>> =>
                \E i \in 1..Len(h_last.ret) :
                    /\ h_last.ret[i].role = "assistant"
                    /\ h_last.ret[i].tool_calls = h_last.history[j].tool_calls

RECURSIVE IsSubsequence(_, _)
\* the messages of sub are messages of s, in the order they have in s
IsSubsequence(sub, s) ==
    IF sub = <<>> THEN TRUE
    ELSE IF s = <<>> THEN FALSE
    ELSE IF Head(sub) = Head(s) THEN IsSubsequence(Tail(sub), Tail(s))
    ELSE IsSubsequence(sub, Tail(s))

\* prune of a transcript within max_messages returns the transcript
PruneWithinLimit ==
    ( h_last.op = "prune" /\ Len(h_last.history) <= h_last.max_messages )
    => h_last.ret = h_last.history

\* prune of a longer transcript with no leading system message returns its
\* last max_messages messages
PruneWithoutSystem ==
    ( /\ h_last.op = "prune"
      /\ Len(h_last.history) > h_last.max_messages
      /\ h_last.history[1].role # "system" )
    => h_last.ret = SubSeq(h_last.history,
                           Len(h_last.history) - h_last.max_messages + 1,
                           Len(h_last.history))

\* C31: prune returns the transcript unchanged when it has at most
\* max_messages messages; a longer transcript whose first message is not a
\* system message comes back as its most recent max_messages messages in
\* order; and whatever the transcript, the result has at most max_messages
\* messages and is a subsequence of the input.
C31_PruneBounded ==
    /\ PruneWithinLimit
    /\ PruneWithoutSystem
    /\ h_last.op = "prune" =>
          /\ Len(h_last.ret) <= h_last.max_messages
          /\ IsSubsequence(h_last.ret, h_last.history)

----------------------------------------------------------------------------
(* Claims about the result truncator *)

\* part occurs in s
Contains(s, part) ==
    \E i \in 0..(Len(s) - Len(part)) : SubSeq(s, i + 1, i + Len(part)) = part

\* the output writes key as the key of an item: "key": 
WrittenAsKey(output, key) == Contains(output, JsonString(key) \o <<":", " ">>)

\* the always-preserve set of the last call
PreservedKeys ==
    {CRITICAL_KEYS[i] : i \in 1..Len(CRITICAL_KEYS)}
        \cup {SUMMARY_KEYS[i] : i \in 1..Len(SUMMARY_KEYS)}
        \cup {t_last.preserve_keys[i] : i \in 1..Len(t_last.preserve_keys)}

\* C18: whatever the result (plain text, mapping or sequence) and whatever
\* max_chars, the string truncate_tool_result returns has at most max_chars
\* characters, the final cut included.
C18_OutputWithinMaxChars ==
    t_last.op = "truncate" => Len(t_last.output) <= t_last.max_chars

\* C19: when the result is a mapping, every key of it that is in the
\* always-preserve set (CRITICAL_KEYS, SUMMARY_KEYS, preserve_keys) is a key
\* in the string returned, whatever max_chars is.
C19_PreservedKeysKept ==
    (t_last.op = "truncate" /\ t_last.result.type = "dict") =>
        \A i \in 1..Len(t_last.result.items) :
            t_last.result.items[i].key \in PreservedKeys =>
                WrittenAsKey(t_last.output, t_last.result.items[i].key)

\* the keys of a dict itself
OwnKeys(data) == { data.items[i].key : i \in 1..Len(data.items) }

\* the keys of the mapping given that the truncated mapping does not have
OmittedKeys == OwnKeys(t_last.result) \ OwnKeys(t_last.truncated[1])

\* C32: when a key of the mapping given that is not in the always-preserve
\* set is not a key of the truncated mapping, the truncated mapping has the
\* key _more_fields, its value the number of keys of the input left out.
C32_NoSilentFieldDrops ==
    ( /\ t_last.op = "truncate"
      /\ t_last.result.type = "dict"
      /\ \E key \in OmittedKeys : key \notin PreservedKeys )
    => /\ HasKey(t_last.truncated[1], MoreFields)
       /\ DictGet(t_last.truncated[1], MoreFields) = IntValue(Cardinality(OmittedKeys))

----------------------------------------------------------------------------
(* Claims about chat *)

\* the calls of a turn hold a call named e
Made(events, e) == \E i \in 1..Len(events) : events[i] = e

\* in the calls of a turn, every call named e comes before every call named f
AllBefore(events, e, f) ==
    \A i, j \in 1..Len(events) : events[i] = e /\ events[j] = f => i < j

\* this step is a call of chat
ChatStep == a_stats'.total_requests = a_stats.total_requests + 1

\* this step is a call of chat in which QueryCache.get hits
ExactHitStep == ChatStep /\ q_stats'.hits = q_stats.hits + 1

\* this step is a call of chat in which SemanticCache.get_similar hits
SemanticHitStep == ChatStep /\ s_stats'.hits = s_stats.hits + 1

\* C20: in every call of chat the exact lookup comes before the semantic
\* lookup and both come before the routing and before every completion call;
\* when either cache hits, chat returns the response of a cached entry and the
\* turn routes nothing, calls no completion, runs no tool and populates no
\* cache; when the exact cache hits, the turn makes no semantic lookup
C20_LookupOrderAndShortCircuit ==
    [][ChatStep =>
          /\ AllBefore(a_last'.events, "exact_get", "semantic_get")
          /\ \A lookup \in {"exact_get", "semantic_get"}, later \in {"route", "completion"} :
                AllBefore(a_last'.events, lookup, later)
          /\ ExactHitStep \/ SemanticHitStep =>
                /\ a_last'.ret # NoContent
                /\ \/ \E i \in 1..Len(q_cache) : q_cache[i].response = a_last'.ret[1]
                   \/ \E i \in 1..Len(s_entries) : s_entries[i].response = a_last'.ret[1]
                /\ \A e \in {"route", "completion", "tool", "exact_set", "semantic_set"} :
                      ~Made(a_last'.events, e)
          /\ ExactHitStep => ~Made(a_last'.events, "semantic_get")]_vars

\* the hit and miss counters of the semantic cache
SemanticCounters(stats) == <<stats.hits, stats.misses>>

\* this step is a call of chat in which a fetch of _get_embedding fails
FetchFailedStep == ChatStep /\ Made(a_last'.events, "no_embedding")

\* C21: in a call of chat in which the embedding fetch fails, the entries and
\* the hit and miss counters of the semantic cache are left as they were, the
\* exact cache is looked up and populated, and no exception reaches the caller
C21_EmbeddingFailureExactOnly ==
    [][FetchFailedStep =>
          /\ s_entries' = s_entries
          /\ SemanticCounters(s_stats') = SemanticCounters(s_stats)
          /\ a_config.use_caching =>
                Made(a_last'.events, "exact_get") /\ Made(a_last'.events, "exact_set")
          /\ ~a_last'.raised]_vars

\* every assistant message of the transcript that calls tools is followed by
\* the tool messages of its calls, one per call and in their order
CallsAnswered(history) ==
    \A i \in 1..Len(history) :
        \A k \in 1..Len(history[i].tool_calls) :
            /\ i + k <= Len(history)
            /\ history[i + k].role = "tool"
            /\ history[i + k].tool_call_id = history[i].tool_calls[k]

\* C22: no call of chat ends with an exception, whatever the completion
\* service, the embedding service and the tools do, and every call leaves a
\* transcript in which each tool call has its result
C22_NoExceptionFromChat ==
    [][ChatStep => ~a_last'.raised /\ CallsAnswered(h_history')]_vars

\* C23: the messages of every completion request of chat are optimize of the
\* transcript as it stands at that request, and every call of chat that
\* returns a response prunes the transcript
C23_OptimizeBeforeEveryCallPruneAfter ==
    [][ChatStep =>
          /\ \A k \in 1..Len(a_last'.sent) :
                a_last'.sent[k].messages = Optimize(a_last'.sent[k].transcript, h_config)
          /\ ~a_last'.raised => Made(a_last'.events, "prune")]_vars

\* C34: after every call of chat that returns, the transcript holds at most
\* max_messages=50 messages (ChatMaxMessages here) and its first message is
\* the system message
C34_TranscriptBounded ==
    [][ChatStep /\ ~a_last'.raised =>
          /\ Len(h_history') <= ChatMaxMessages
          /\ h_history'[1].role = "system"]_vars

\* the number of calls named e among the calls of a turn
CountOf(events, e) == Cardinality({ i \in 1..Len(events) : events[i] = e })

\* the assistant messages with tool calls that this call of chat added to the
\* transcript it pruned: the rounds in which the model service called tools
ToolRounds ==
    Cardinality({ i \in (Len(h_history) + 1)..Len(h_last'.history) :
                     h_last'.history[i].tool_calls # <<>> })

\* this step is a call of chat that returns after the model service called
\* tools in each of max_tool_calls rounds
ExhaustedStep ==
    /\ ChatStep
    /\ Made(a_last'.events, "prune")
    /\ ToolRounds = a_last'.max_tool_calls

\* C35: a call of chat in which every completion call and every tool call
\* returns makes at most max_tool_calls completion calls, and when the model
\* service called tools in each of max_tool_calls rounds, chat returns the
\* maximum-tool-calls message
C35_ToolLoopBounded ==
    [][ChatStep /\ ~a_last'.raised =>
          /\ CountOf(a_last'.events, "completion") <= a_last'.max_tool_calls
          /\ ExhaustedStep => a_last'.ret = <<MaxToolCallsResponse>>]_vars

\* a call of chat returned the maximum-tool-calls message after tools were
\* called in each of its max_tool_calls completion calls
C35_Witness ==
    /\ a_last.op = "chat"
    /\ ~a_last.raised
    /\ a_last.max_tool_calls = MaxToolCalls
    /\ CountOf(a_last.events, "completion") = MaxToolCalls
    /\ CountOf(a_last.events, "tool") = 3 * MaxToolCalls
    /\ a_last.ret = <<MaxToolCallsResponse>>

\* the responses held by the exact cache and by the semantic cache
CachedResponses(cache, entries) ==
    { cache[i].response : i \in 1..Len(cache) }
        \cup { entries[i].response : i \in 1..Len(entries) }

\* this step is a call of chat that stores its response in a cache
StoringStep ==
    ChatStep /\ (Made(a_last'.events, "exact_set") \/ Made(a_last'.events, "semantic_set"))

\* C36: a call of chat that stores its response in a cache ended with a
\* response of the completion service that calls no tool, and the response
\* stored is the text of that response; the maximum-tool-calls message is in
\* no cache, and no call of chat answers with it from a cache
C36_OnlyFinalAnswersCached ==
    [][ChatStep =>
          /\ StoringStep =>
                LET final == h_last'.history[Len(h_last'.history)]
                IN  /\ final.role = "assistant"
                    /\ final.tool_calls = <<>>
                    /\ final.content = a_last'.ret
          /\ MaxToolCallsResponse \notin CachedResponses(q_cache', s_entries')
          /\ ExactHitStep \/ SemanticHitStep => a_last'.ret # <<MaxToolCallsResponse>>]_vars

\* every tool message of the list comes after an assistant message of the
\* list whose tool calls hold its tool_call_id
ToolsPreceded(history) ==
    \A i \in 1..Len(history) :
        history[i].role = "tool" =>
            \E j \in 1..(i - 1) :
                /\ history[j].role = "assistant"
                /\ \E k \in 1..Len(history[j].tool_calls) :
                      history[j].tool_calls[k] = history[i].tool_call_id

\* the tool messages of the list and the tool calls of its assistant messages
\* are paired
Paired(history) == ToolsPreceded(history) /\ CallsAnswered(history)

\* C37: after every call of chat that returns, the transcript, and every list
\* of messages the call sent to the completion service, has each tool message
\* preceded by an assistant message that holds its tool_call_id and each
\* assistant message with tool calls followed by one tool message per call
C37_ToolMessagesPaired ==
    [][ChatStep /\ ~a_last'.raised =>
          /\ Paired(h_history')
          /\ \A k \in 1..Len(a_last'.sent) : Paired(a_last'.sent[k].messages)]_vars

\* C39: after every call of chat that returns a response, the last message of
\* the transcript is an assistant message whose content is that response, and
\* the user message of the call comes before it
C39_TurnRecordedWithAnswer ==
    [][ChatStep /\ ~a_last'.raised =>
          LET last == h_history'[Len(h_history')]
          IN  /\ last.role = "assistant"
              /\ last.tool_calls = <<>>
              /\ last.content = a_last'.ret
              /\ \E i \in 1..(Len(h_history') - 1) :
                    /\ h_history'[i].role = "user"
                    /\ h_history'[i].content = <<a_last'.user_message>>]_vars

====
